---- MODULE Spec2Model ----
(***************************************************************************)
(* A model of mapogr.cpp, the OGR vector-data provider of MapServer:       *)
(* geometry conversion (ogrGeomPoints, ogrGeomLine, ogrConvertGeometry)    *)
(* and the layer operations built on the tiled cursor                      *)
(* (msOGRFileOpen/Close/WhichShapes/NextShape/GetShape/ReadTile and the    *)
(* msOGRLayer* entry points), with the process-wide OGR lock.              *)
(***************************************************************************)
EXTENDS Integers, Sequences, FiniteSets, TLC

(***************************************************************************)
(* Bounds of the model.                                                    *)
(***************************************************************************)
MaxCoord == 1
MaxPts == 3
MaxMemberPts == 2
MaxMembers == 2

(***************************************************************************)
(* Status codes, shape types and layer types (symbolic).                   *)
(***************************************************************************)
MS_SUCCESS == "MS_SUCCESS"
MS_FAILURE == "MS_FAILURE"
MS_DONE == "MS_DONE"

MS_SHAPE_NULL == "MS_SHAPE_NULL"
MS_SHAPE_POINT == "MS_SHAPE_POINT"
MS_SHAPE_LINE == "MS_SHAPE_LINE"
MS_SHAPE_POLYGON == "MS_SHAPE_POLYGON"

MS_LAYER_POINT == "MS_LAYER_POINT"
MS_LAYER_LINE == "MS_LAYER_LINE"
MS_LAYER_POLYGON == "MS_LAYER_POLYGON"
MS_LAYER_QUERY == "MS_LAYER_QUERY"
MS_LAYER_CHART == "MS_LAYER_CHART"
MS_LAYER_RASTER == "MS_LAYER_RASTER"

wkbPoint == "wkbPoint"
wkbLineString == "wkbLineString"
wkbPolygon == "wkbPolygon"
wkbMultiPoint == "wkbMultiPoint"
wkbMultiLineString == "wkbMultiLineString"
wkbMultiPolygon == "wkbMultiPolygon"
wkbGeometryCollection == "wkbGeometryCollection"
wkbNone == "wkbNone"

(***************************************************************************)
(* Geometries.  A geometry node is a record: t is the flattened subtype,   *)
(* z the wkb25DBit of its type code, pts the points of a leaf, members the *)
(* sub-geometries of a container (and the points of a multipoint).  The    *)
(* rings of a polygon are linestrings (a linear ring reports the type      *)
(* wkbLineString).  NULL is the null geometry handle.                      *)
(***************************************************************************)
NULL == [t |-> "NULL", z |-> FALSE, pts |-> << >>, members |-> << >>]

Geom(t, z, pts, members) == [t |-> t, z |-> z, pts |-> pts, members |-> members]

OGR_G_GetGeometryType(hGeom) == [flat |-> hGeom.t, z |-> hGeom.z]

wkbFlatten(gtype) == gtype.flat

OGR_G_GetGeometryCount(hGeom) == Len(hGeom.members)

OGR_G_GetGeometryRef(hGeom, i) == hGeom.members[i]

OGR_G_GetPointCount(hGeom) == Len(hGeom.pts)

OGR_G_GetX(hGeom, i) == hGeom.pts[i][1]

OGR_G_GetY(hGeom, i) == hGeom.pts[i][2]

(***************************************************************************)
(* Shapes.  msInitShape is the shapeObj a caller hands in: no line, type   *)
(* Null, and bounds that the conversion overwrites with the first point it *)
(* stores.                                                                 *)
(***************************************************************************)
msInitShape ==
  [type |-> MS_SHAPE_NULL, line |-> << >>,
   bounds |-> [minx |-> -1, miny |-> -1, maxx |-> -1, maxy |-> -1],
   values |-> << >>, index |-> -1, resultindex |-> -1, tileindex |-> -1]

msAddLine(shp, newline) == [shp EXCEPT !.line = Append(@, newline)]

\* ogrPointsAddPoint with the upper y bound never relaxed.
ogrPointsAddPointNoMaxY(line, dX, dY, lineindex, bounds) ==
  [line |-> Append(line, <<dX, dY>>),
   bounds |-> IF Len(line) = 0 /\ lineindex = 0
              THEN [minx |-> dX, maxx |-> dX, miny |-> dY, maxy |-> dY]
              ELSE [minx |-> IF dX < bounds.minx THEN dX ELSE bounds.minx,
                    maxx |-> IF dX > bounds.maxx THEN dX ELSE bounds.maxx,
                    miny |-> IF dY < bounds.miny THEN dY ELSE bounds.miny,
                    maxy |-> bounds.maxy]]

\* Appends a point to a line and keeps track of the shape bounds; lineindex
\* is the zero-based index of the line in its shape.
ogrPointsAddPoint(line, dX, dY, lineindex, bounds) ==
  [line |-> Append(line, <<dX, dY>>),
   bounds |-> IF Len(line) = 0 /\ lineindex = 0
              THEN [minx |-> dX, maxx |-> dX, miny |-> dY, maxy |-> dY]
              ELSE [minx |-> IF dX < bounds.minx THEN dX ELSE bounds.minx,
                    maxx |-> IF dX > bounds.maxx THEN dX ELSE bounds.maxx,
                    miny |-> IF dY < bounds.miny THEN dY ELSE bounds.miny,
                    maxy |-> IF dY > bounds.maxy THEN dY ELSE bounds.maxy]]

\* The point-adding loops of ogrGeomPoints: the points i..numpoints of a
\* leaf are appended to the last line of the shape.
RECURSIVE ogrGeomPointsAdd(_, _, _, _)
ogrGeomPointsAdd(hGeom, eGType, i, outshp) ==
  LET numpoints == IF eGType = wkbPoint THEN 1
                   ELSE IF eGType = wkbLineString
                        THEN OGR_G_GetPointCount(hGeom)
                        ELSE OGR_G_GetGeometryCount(hGeom)
  IN IF i > numpoints THEN outshp
     ELSE LET hPoint == IF eGType = wkbMultiPoint
                        THEN OGR_G_GetGeometryRef(hGeom, i) ELSE hGeom
              k == IF eGType = wkbLineString THEN i ELSE 1
              n == Len(outshp.line)
              r == ogrPointsAddPoint(outshp.line[n], OGR_G_GetX(hPoint, k),
                                     OGR_G_GetY(hPoint, k), n - 1,
                                     outshp.bounds)
          IN ogrGeomPointsAdd(hGeom, eGType, i + 1,
               [outshp EXCEPT !.line[n] = r.line, !.bounds = r.bounds])

RECURSIVE ogrGeomPoints(_, _)
RECURSIVE ogrGeomPointsMembers(_, _, _)
\* The container loop of ogrGeomPoints over the members iGeom.. of hGeom.
ogrGeomPointsMembers(hGeom, iGeom, outshp) ==
  IF iGeom > OGR_G_GetGeometryCount(hGeom) THEN [rc |-> 0, shp |-> outshp]
  ELSE LET r == ogrGeomPoints(OGR_G_GetGeometryRef(hGeom, iGeom), outshp)
       IN IF r.rc = -1 THEN r
          ELSE ogrGeomPointsMembers(hGeom, iGeom + 1, r.shp)

\* Point extraction: every point of the geometry goes to one line.
ogrGeomPoints(hGeom, outshp) ==
  IF hGeom = NULL THEN [rc |-> 0, shp |-> outshp]
  ELSE LET eGType == wkbFlatten(OGR_G_GetGeometryType(hGeom))
       IN IF eGType \in {wkbGeometryCollection, wkbMultiLineString,
                         wkbMultiPolygon, wkbPolygon}
          THEN ogrGeomPointsMembers(hGeom, 1, outshp)
          ELSE IF eGType \in {wkbPoint, wkbMultiPoint, wkbLineString}
          THEN LET shp1 == IF Len(outshp.line) = 0
                           THEN msAddLine(outshp, << >>) ELSE outshp
                   shp2 == ogrGeomPointsAdd(hGeom, eGType, 1, shp1)
               IN [rc |-> 0, shp |-> [shp2 EXCEPT !.type = MS_SHAPE_POINT]]
          ELSE [rc |-> -1, shp |-> outshp]

\* The bounds loop of ogrGeomLine over the points j.. of a linestring;
\* numlines is the number of lines the shape already has.
RECURSIVE ogrGeomLineBounds(_, _, _, _)
ogrGeomLineBounds(hGeom, j, numlines, bounds) ==
  IF j > OGR_G_GetPointCount(hGeom) THEN bounds
  ELSE LET dX == OGR_G_GetX(hGeom, j)
           dY == OGR_G_GetY(hGeom, j)
       IN ogrGeomLineBounds(hGeom, j + 1, numlines,
            IF j = 1 /\ numlines = 0
            THEN [minx |-> dX, maxx |-> dX, miny |-> dY, maxy |-> dY]
            ELSE [minx |-> IF dX < bounds.minx THEN dX ELSE bounds.minx,
                  maxx |-> IF dX > bounds.maxx THEN dX ELSE bounds.maxx,
                  miny |-> IF dY < bounds.miny THEN dY ELSE bounds.miny,
                  maxy |-> IF dY > bounds.maxy THEN dY ELSE bounds.maxy])

\* Ring closure that appends the closing point unconditionally.
ogrGeomLineCloseAlways(line, bCloseRings) ==
  IF bCloseRings THEN Append(line, line[1]) ELSE line

\* The ring closure of ogrGeomLine: the line has at least two points.
ogrGeomLineClose(line, bCloseRings) ==
  IF bCloseRings /\ (line[Len(line)][1] # line[1][1]
                     \/ line[Len(line)][2] # line[1][2])
  THEN Append(line, line[1])
  ELSE line

\* The linestring branch of ogrGeomLine: one new ring, unless degenerate.
ogrGeomLineString(hGeom, outshp, bCloseRings) ==
  IF OGR_G_GetPointCount(hGeom) < 2 THEN [rc |-> 0, shp |-> outshp]
  ELSE LET shp1 == IF outshp.type = MS_SHAPE_NULL
                   THEN [outshp EXCEPT !.type = MS_SHAPE_LINE] ELSE outshp
           b == ogrGeomLineBounds(hGeom, 1, Len(outshp.line), outshp.bounds)
           line == ogrGeomLineClose(hGeom.pts, bCloseRings)
       IN [rc |-> 0,
           shp |-> [shp1 EXCEPT !.bounds = b, !.line = Append(@, line)]]

RECURSIVE ogrGeomLine(_, _, _)
RECURSIVE ogrGeomLineMembers(_, _, _, _)
\* The container loop of ogrGeomLine over the members iGeom.. of hGeom.
ogrGeomLineMembers(hGeom, iGeom, outshp, bCloseRings) ==
  IF iGeom > OGR_G_GetGeometryCount(hGeom) THEN [rc |-> 0, shp |-> outshp]
  ELSE LET r == ogrGeomLine(OGR_G_GetGeometryRef(hGeom, iGeom), outshp,
                            bCloseRings)
       IN IF r.rc = -1 THEN r
          ELSE ogrGeomLineMembers(hGeom, iGeom + 1, r.shp, bCloseRings)

\* Line extraction with point members counted as an unsupported subtype.
ogrGeomLineRejectPoints(hGeom, outshp, bCloseRings) ==
  IF hGeom = NULL THEN [rc |-> 0, shp |-> outshp]
  ELSE LET eGType == wkbFlatten(OGR_G_GetGeometryType(hGeom))
       IN IF eGType \in {wkbPolygon, wkbGeometryCollection,
                         wkbMultiLineString, wkbMultiPolygon}
          THEN ogrGeomLineMembers(hGeom, 1,
                 IF eGType = wkbPolygon /\ outshp.type = MS_SHAPE_NULL
                 THEN [outshp EXCEPT !.type = MS_SHAPE_POLYGON] ELSE outshp,
                 bCloseRings)
          ELSE IF eGType = wkbLineString
          THEN ogrGeomLineString(hGeom, outshp, bCloseRings)
          ELSE [rc |-> -1, shp |-> outshp]

\* Line/polygon extraction: each linestring becomes a line of the shape.
ogrGeomLine(hGeom, outshp, bCloseRings) ==
  IF hGeom = NULL THEN [rc |-> 0, shp |-> outshp]
  ELSE LET eGType == wkbFlatten(OGR_G_GetGeometryType(hGeom))
       IN IF eGType \in {wkbPolygon, wkbGeometryCollection,
                         wkbMultiLineString, wkbMultiPolygon}
          THEN ogrGeomLineMembers(hGeom, 1,
                 IF eGType = wkbPolygon /\ outshp.type = MS_SHAPE_NULL
                 THEN [outshp EXCEPT !.type = MS_SHAPE_POLYGON] ELSE outshp,
                 bCloseRings)
          ELSE IF eGType \in {wkbPoint, wkbMultiPoint}
          THEN [rc |-> 0, shp |-> outshp]
          ELSE IF eGType = wkbLineString
          THEN ogrGeomLineString(hGeom, outshp, bCloseRings)
          ELSE [rc |-> -1, shp |-> outshp]

\* ogrConvertGeometry with the type check of the polygon layer lost.
ogrConvertGeometryNoPolygonCheck(hGeom, outshp, layertype) ==
  IF hGeom = NULL THEN [status |-> MS_SUCCESS, shp |-> outshp]
  ELSE IF layertype = MS_LAYER_POINT
  THEN LET r == ogrGeomPoints(hGeom, outshp)
       IN [status |-> IF r.rc = -1 THEN MS_FAILURE ELSE MS_SUCCESS,
           shp |-> r.shp]
  ELSE IF layertype = MS_LAYER_LINE
  THEN LET r == ogrGeomLine(hGeom, outshp, FALSE)
       IN [status |-> IF r.rc = -1 THEN MS_FAILURE ELSE MS_SUCCESS,
           shp |-> IF r.shp.type \notin {MS_SHAPE_LINE, MS_SHAPE_POLYGON}
                   THEN [r.shp EXCEPT !.type = MS_SHAPE_NULL] ELSE r.shp]
  ELSE IF layertype = MS_LAYER_POLYGON
  THEN LET r == ogrGeomLine(hGeom, outshp, TRUE)
       IN [status |-> IF r.rc = -1 THEN MS_FAILURE ELSE MS_SUCCESS,
           shp |-> r.shp]
  ELSE IF layertype \in {MS_LAYER_CHART, MS_LAYER_QUERY}
  THEN LET gt == OGR_G_GetGeometryType(hGeom)
           r == IF gt \in {[flat |-> wkbPoint, z |-> FALSE],
                           [flat |-> wkbPoint, z |-> TRUE],
                           [flat |-> wkbMultiPoint, z |-> FALSE],
                           [flat |-> wkbMultiPoint, z |-> TRUE]}
                THEN ogrGeomPoints(hGeom, outshp)
                ELSE ogrGeomLine(hGeom, outshp, FALSE)
       IN [status |-> IF r.rc = -1 THEN MS_FAILURE ELSE MS_SUCCESS,
           shp |-> r.shp]
  ELSE [status |-> MS_FAILURE, shp |-> outshp]

\* Converts a geometry into a shape according to the layer type.  The type
\* codes wkbPoint, wkbPoint25D, wkbMultiPoint and wkbMultiPoint25D of the
\* query/chart switch are the point and multipoint subtypes with the 2.5D
\* bit clear or set.
ogrConvertGeometry(hGeom, outshp, layertype) ==
  IF hGeom = NULL THEN [status |-> MS_SUCCESS, shp |-> outshp]
  ELSE IF layertype = MS_LAYER_POINT
  THEN LET r == ogrGeomPoints(hGeom, outshp)
       IN [status |-> IF r.rc = -1 THEN MS_FAILURE ELSE MS_SUCCESS,
           shp |-> r.shp]
  ELSE IF layertype = MS_LAYER_LINE
  THEN LET r == ogrGeomLine(hGeom, outshp, FALSE)
       IN [status |-> IF r.rc = -1 THEN MS_FAILURE ELSE MS_SUCCESS,
           shp |-> IF r.shp.type \notin {MS_SHAPE_LINE, MS_SHAPE_POLYGON}
                   THEN [r.shp EXCEPT !.type = MS_SHAPE_NULL] ELSE r.shp]
  ELSE IF layertype = MS_LAYER_POLYGON
  THEN LET r == ogrGeomLine(hGeom, outshp, TRUE)
       IN [status |-> IF r.rc = -1 THEN MS_FAILURE ELSE MS_SUCCESS,
           shp |-> IF r.shp.type # MS_SHAPE_POLYGON
                   THEN [r.shp EXCEPT !.type = MS_SHAPE_NULL] ELSE r.shp]
  ELSE IF layertype \in {MS_LAYER_CHART, MS_LAYER_QUERY}
  THEN LET gt == OGR_G_GetGeometryType(hGeom)
           r == IF gt \in {[flat |-> wkbPoint, z |-> FALSE],
                           [flat |-> wkbPoint, z |-> TRUE],
                           [flat |-> wkbMultiPoint, z |-> FALSE],
                           [flat |-> wkbMultiPoint, z |-> TRUE]}
                THEN ogrGeomPoints(hGeom, outshp)
                ELSE ogrGeomLine(hGeom, outshp, FALSE)
       IN [status |-> IF r.rc = -1 THEN MS_FAILURE ELSE MS_SUCCESS,
           shp |-> r.shp]
  ELSE [status |-> MS_FAILURE, shp |-> outshp]

(***************************************************************************)
(* The geometries the conversion is checked on.                            *)
(***************************************************************************)
Coord == 0..MaxCoord

Pt == Coord \X Coord

SeqUpTo(S, n) == UNION {[1..k -> S] : k \in 0..n}

PointGeoms == {Geom(wkbPoint, FALSE, <<p>>, << >>) : p \in Pt}

LineStringGeoms(n) ==
  {Geom(wkbLineString, FALSE, pts, << >>) : pts \in SeqUpTo(Pt, n)}

MultiPointGeoms(n) ==
  {Geom(wkbMultiPoint, FALSE, << >>, ms) : ms \in SeqUpTo(PointGeoms, n)}

UnsupportedGeom == Geom(wkbNone, FALSE, << >>, << >>)

ContainerTypes ==
  {wkbPolygon, wkbGeometryCollection, wkbMultiLineString, wkbMultiPolygon}

\* The leaves of the top level, with either value of the 2.5D bit.
LeafGeoms ==
  {[g EXCEPT !.z = z] :
     g \in PointGeoms \cup LineStringGeoms(MaxPts)
           \cup MultiPointGeoms(MaxMembers) \cup {UnsupportedGeom},
     z \in BOOLEAN}

\* The points of the members of a container: two corners of the coordinate
\* range, neither below or left of the other.
MemberPts == {<<0, MaxCoord>>, <<MaxCoord, 0>>}

MemberPointGeoms == {Geom(wkbPoint, FALSE, <<p>>, << >>) : p \in MemberPts}

MemberLineStringGeoms(n) ==
  {Geom(wkbLineString, FALSE, pts, << >>) : pts \in SeqUpTo(MemberPts, n)}

\* The members of a container.
MemberGeoms ==
  MemberPointGeoms \cup MemberLineStringGeoms(MaxMemberPts)
  \cup {Geom(wkbMultiPoint, FALSE, << >>,
              <<Geom(wkbPoint, FALSE, <<<<0, MaxCoord>>>>, << >>)>>),
         UnsupportedGeom}

ContainerGeoms ==
  {Geom(t, FALSE, << >>, ms) :
     t \in ContainerTypes, ms \in SeqUpTo(MemberGeoms, MaxMembers)}

\* Containers of a polygon and one more member, in either order.
NestedGeoms ==
  LET polys == {Geom(wkbPolygon, FALSE, << >>, <<r>>) :
                  r \in {l \in MemberLineStringGeoms(MaxMemberPts) :
                           Len(l.pts) = MaxMemberPts}}
  IN {Geom(t, FALSE, << >>, ms) :
        t \in {wkbGeometryCollection, wkbMultiPolygon},
        ms \in UNION {{<<a, b>>, <<b, a>>} :
                        a \in polys,
                        b \in MemberPointGeoms \cup MemberLineStringGeoms(1)
                              \cup {UnsupportedGeom}}}

Geoms == {NULL} \cup LeafGeoms \cup ContainerGeoms \cup NestedGeoms

LayerTypes ==
  {MS_LAYER_POINT, MS_LAYER_LINE, MS_LAYER_POLYGON, MS_LAYER_QUERY,
   MS_LAYER_CHART, MS_LAYER_RASTER}

(***************************************************************************)
(* The data sources behind a layer.  A feature is named by the kind of its *)
(* geometry; its feature id is its zero-based position in its data set.    *)
(* A tile is a record of the tile index: status tells whether the          *)
(* sub-dataset it names can be opened ("missing": OGROpen fails;           *)
(* "badfilter": the layer's native filter does not apply to it), feats are *)
(* its features in cursor order.                                           *)
(***************************************************************************)
MaxTiles == 3
MaxIndex == 2
MaxFileFeats == 2

\* The geometry of a feature, by the kind of the feature.
OGR_F_GetGeometryRef(hFeature) ==
  CASE hFeature = "null" -> NULL
    [] hFeature = "point" -> Geom(wkbPoint, FALSE, <<<<0, 0>>>>, << >>)
    [] hFeature = "line" ->
         Geom(wkbLineString, FALSE, <<<<0, 0>>, <<1, 1>>>>, << >>)
    [] hFeature = "polygon" ->
         Geom(wkbPolygon, FALSE, << >>,
              <<Geom(wkbLineString, FALSE,
                     <<<<0, 0>>, <<0, 1>>, <<1, 0>>, <<0, 0>>>>, << >>)>>)
    [] OTHER -> UnsupportedGeom

FileFeatures == {"null", "point", "line", "unsupported"}

\* The records of a tile index: a tile with features of both kinds, one
\* with point features only, one that does not exist and one that the
\* layer's filter does not apply to.
TileKinds ==
  {[status |-> "ok", feats |-> <<"line", "point", "line">>],
   [status |-> "ok", feats |-> <<"point">>],
   [status |-> "missing", feats |-> << >>],
   [status |-> "badfilter", feats |-> <<"line">>]}

\* The rectangles given to WhichShapes: one with minx = maxx = 0 and one
\* without.
Rects == {[minx |-> 0, miny |-> -1, maxx |-> 0, maxy |-> 1],
          [minx |-> 0, miny |-> 0, maxx |-> 2, maxy |-> 2]}

\* The resultObj records given to GetShape: a feature id in a tile, or a
\* result offset in the first tile.
Records ==
  {[shapeindex |-> f, tileindex |-> t, resultindex |-> -1] :
     f \in 0..1, t \in 0..1}
  \cup {[shapeindex |-> -1, tileindex |-> 0, resultindex |-> r] : r \in 0..1}

ZeroRect == [minx |-> 0, miny |-> 0, maxx |-> 0, maxy |-> 0]

NoFeature == [ds |-> -1, fid |-> -1]

(***************************************************************************)
(* State of the layer model.                                               *)
(*   layer      the layerObj fields the provider reads: type, tileindex    *)
(*              (TRUE for a tiled layer), sortBy, isSQL (the layer         *)
(*              definition is a SELECT statement), numitems                *)
(*   tiles      the records of the tile index (tiled layer)                *)
(*   feats      the features of the data set (untiled layer)               *)
(*   layerinfo  layer->layerinfo: << >> when NULL, else <<psInfo>>; a      *)
(*              psInfo is a msOGRFileInfo with poCurTile again << >> or    *)
(*              <<tile info>> and pos the position of the back end's       *)
(*              cursor                                                     *)
(*   lockHeld   the calling thread holds the OGR lock                      *)
(*   bOGRDriversRegistered  the drivers-registered flag                    *)
(*   conns      the data sets with an open data-source handle              *)
(*   trace      what the last operation did: the back-end calls made       *)
(*              without the lock, releases of a lock not held, pool        *)
(*              releases and lock acquisitions with the lock held, the     *)
(*              sites of the pool releases, its calls of                   *)
(*              msOGRFileReadTile and its last fetch from a file: the      *)
(*              function, the feature whose geometry it converted last     *)
(*              and its status                                             *)
(*   ret        what the last operation returned, if it fetched a shape    *)
(*   iter       progress of the iteration started by WhichShapes, with the *)
(*              shapes returned so far                                     *)
(***************************************************************************)
VARIABLES layer, tiles, feats, layerinfo, lockHeld, bOGRDriversRegistered,
          conns, trace, ret, iter

lvars == <<layer, tiles, feats, layerinfo, lockHeld, bOGRDriversRegistered,
           conns, trace, ret, iter>>

NoTrace == [unlocked |-> {}, badRelease |-> FALSE, poolHeld |-> FALSE,
            deadlock |-> FALSE, poolSites |-> << >>, readTile |-> << >>,
            fetch |-> [fn |-> "none", converted |-> "none",
                       status |-> "none"]]

NoRet == [op |-> "none", status |-> MS_SUCCESS, shape |-> msInitShape]

NoIter == [state |-> "none", returned |-> << >>]

\* The features of a data set: 0 is the layer's own data set, i > 0 the
\* sub-dataset of index record i.
Feats(ds) == IF ds = 0 THEN feats ELSE tiles[ds].feats

\* The feature id of the record at position i of a data set.
FidOf(i) == i - 1

(***************************************************************************)
(* The running state of an operation: the mutable variables as one record. *)
(***************************************************************************)
Running == [layerinfo |-> layerinfo, lock |-> lockHeld,
            registered |-> bOGRDriversRegistered, conns |-> conns,
            numitems |-> layer.numitems, trace |-> NoTrace]

ACQUIRE_OGR_LOCK(st) ==
  IF st.lock THEN [st EXCEPT !.trace.deadlock = TRUE]
  ELSE [st EXCEPT !.lock = TRUE]

RELEASE_OGR_LOCK(st) ==
  IF st.lock THEN [st EXCEPT !.lock = FALSE]
  ELSE [st EXCEPT !.trace.badRelease = TRUE]

\* Notes a fetch from a file by the function fn, the feature whose geometry
\* is converted and the status returned.
Fetching(st, fn) ==
  [st EXCEPT !.trace.fetch = [fn |-> fn, converted |-> "none",
                              status |-> "pending"]]

Converted(st, hFeature) == [st EXCEPT !.trace.fetch.converted = hFeature]

Fetched(st, status) == [st EXCEPT !.trace.fetch.status = status]

\* A call into the OGR back end, at the named site.
OGRCall(st, site) ==
  IF st.lock THEN st ELSE [st EXCEPT !.trace.unlocked = @ \cup {site}]

msOGRInitialize(st) ==
  IF ~st.registered
  THEN RELEASE_OGR_LOCK([OGRCall(ACQUIRE_OGR_LOCK(st), "OGRRegisterAll")
                           EXCEPT !.registered = TRUE])
  ELSE st

msOGRCloseConnection(st) ==
  RELEASE_OGR_LOCK(OGRCall(ACQUIRE_OGR_LOCK(st), "OGR_DS_Destroy"))

\* The connection pool drops the handle of data set ds and runs the close
\* callback.
msConnPoolRelease(st, ds, site) ==
  msOGRCloseConnection(
    [st EXCEPT !.trace.poolHeld = @ \/ st.lock,
               !.trace.poolSites = Append(@, site),
               !.conns = @ \ {ds}])


\* The msOGRFileInfo that msOGRFileOpen fills in for data set ds.
NewFileInfo(ds, nLayerIndex) ==
  [ds |-> ds, nLayerIndex |-> nLayerIndex, hLastFeature |-> NoFeature,
   nTileId |-> 0, poCurTile |-> << >>, rect |-> ZeroRect,
   last_record_index_read |-> -1, pos |-> 0]

\* Opens data set ds; status is what the back end makes of it.  The result
\* info is << >> for NULL.
msOGRFileOpen(st, ds, status) ==
  LET s1 == msOGRInitialize(st)
      s2 == RELEASE_OGR_LOCK(OGRCall(ACQUIRE_OGR_LOCK(s1), "OGROpen"))
  IN IF status = "missing" THEN [st |-> s2, info |-> << >>]
     ELSE LET s3 == [s2 EXCEPT !.conns = @ \cup {ds}]
          IN IF layer.isSQL
             THEN LET s4 == OGRCall(ACQUIRE_OGR_LOCK(s3), "OGR_DS_ExecuteSQL")
                  IN IF status = "badlayer"
                     THEN [st |-> msConnPoolRelease(RELEASE_OGR_LOCK(s4), ds,
                                                    "msOGRFileOpen"),
                           info |-> << >>]
                     ELSE [st |-> RELEASE_OGR_LOCK(s4),
                           info |-> <<NewFileInfo(ds, -1)>>]
             ELSE IF status = "badlayer"
                  THEN [st |-> msConnPoolRelease(s3, ds, "msOGRFileOpen"),
                        info |-> << >>]
                  ELSE [st |-> s3, info |-> <<NewFileInfo(ds, 0)>>]

\* msOGRFileClose with the lock released only after the pool release.
RECURSIVE msOGRFileCloseLateRelease(_, _)
msOGRFileCloseLateRelease(st, info) ==
  IF info = << >> THEN st
  ELSE LET psInfo == info[1]
           s1 == ACQUIRE_OGR_LOCK(st)
           s2 == IF psInfo.nLayerIndex = -1
                 THEN OGRCall(s1, "OGR_DS_ReleaseResultSet") ELSE s1
           s3 == msConnPoolRelease(s2, psInfo.ds, "msOGRFileClose")
           s4 == RELEASE_OGR_LOCK(s3)
       IN IF psInfo.poCurTile # << >>
          THEN msOGRFileCloseLateRelease(s4, psInfo.poCurTile)
          ELSE s4

\* Closes a file info (<< >> for NULL) and, after it, its current tile.
RECURSIVE msOGRFileClose(_, _)
msOGRFileClose(st, info) ==
  IF info = << >> THEN st
  ELSE LET psInfo == info[1]
           s1 == ACQUIRE_OGR_LOCK(st)
           s2 == IF psInfo.nLayerIndex = -1
                 THEN OGRCall(s1, "OGR_DS_ReleaseResultSet") ELSE s1
           s3 == RELEASE_OGR_LOCK(s2)
           s4 == msConnPoolRelease(s3, psInfo.ds, "msOGRFileClose")
       IN IF psInfo.poCurTile # << >>
          THEN msOGRFileClose(s4, psInfo.poCurTile)
          ELSE s4

\* Sets the spatial and attribute filters of a file and rewinds it; status
\* is the status of its data set.
msOGRFileWhichShapes(st, psInfo, rect, status) ==
  LET wasSQL == psInfo.nLayerIndex = -1
      s1 == IF layer.sortBy /\ wasSQL
            THEN OGRCall(st, "OGR_DS_ReleaseResultSet") ELSE st
      s2 == IF layer.sortBy
            THEN RELEASE_OGR_LOCK(OGRCall(ACQUIRE_OGR_LOCK(s1),
                                          "OGR_DS_ExecuteSQL"))
            ELSE st
      p2 == IF layer.sortBy
            THEN [psInfo EXCEPT !.nLayerIndex = -1, !.pos = 0]
            ELSE psInfo
      \* with sortBy the filter of a plain layer goes into the statement
      inSQL == layer.sortBy /\ ~wasSQL
  IN IF inSQL /\ status = "badfilter"
     THEN [st |-> s2, psInfo |-> p2, status |-> MS_FAILURE]
     ELSE LET s3 == OGRCall(ACQUIRE_OGR_LOCK(s2), "OGR_L_SetSpatialFilter")
              p3 == [p2 EXCEPT !.rect = rect]
              s4 == OGRCall(s3, "OGR_L_SetAttributeFilter")
          IN IF ~inSQL /\ status = "badfilter"
             THEN [st |-> RELEASE_OGR_LOCK(s4), psInfo |-> p3,
                   status |-> MS_FAILURE]
             ELSE [st |-> RELEASE_OGR_LOCK(OGRCall(s4, "OGR_L_ResetReading")),
                   psInfo |-> [p3 EXCEPT !.pos = 0,
                                         !.last_record_index_read = -1],
                   status |-> MS_SUCCESS]

msFreeShape(shape) == msInitShape

msOGRGetValues(hFeature) == <<hFeature>>

\* The read loop of msOGRFileNextShape without msFreeShape on a rejected
\* feature.
RECURSIVE msOGRFileNextShapeLoopKeepsShape(_, _, _)
msOGRFileNextShapeLoopKeepsShape(st, psInfo, shape) ==
  LET s1 == OGRCall(st, "OGR_L_GetNextFeature")
  IN IF psInfo.pos >= Len(Feats(psInfo.ds))
     THEN [st |-> RELEASE_OGR_LOCK(s1),
           psInfo |-> [psInfo EXCEPT !.last_record_index_read = -1],
           status |-> MS_DONE, shape |-> shape]
     ELSE LET p1 == [psInfo EXCEPT !.pos = @ + 1,
                                   !.last_record_index_read = @ + 1]
              hFeature == [ds |-> psInfo.ds, fid |-> FidOf(p1.pos)]
              shp1 == IF st.numitems > 0
                      THEN [shape EXCEPT !.values = msOGRGetValues(hFeature)]
                      ELSE shape
              s2 == Converted(s1, Feats(psInfo.ds)[p1.pos])
              \* r is what ogrConvertGeometry made of the feature
              Convert(r) ==
                IF r.status = MS_SUCCESS
                THEN IF r.shp.type # MS_SHAPE_NULL
                     THEN [st |-> RELEASE_OGR_LOCK(s2),
                           psInfo |-> [p1 EXCEPT !.hLastFeature = hFeature],
                           status |-> MS_SUCCESS,
                           shape |-> [r.shp EXCEPT
                                        !.index = hFeature.fid,
                                        !.resultindex =
                                           p1.last_record_index_read,
                                        !.tileindex = psInfo.nTileId]]
                     ELSE msOGRFileNextShapeLoopKeepsShape(s2, p1,
                            [r.shp EXCEPT !.type = MS_SHAPE_NULL])
                ELSE [st |-> RELEASE_OGR_LOCK(s2), psInfo |-> p1,
                      status |-> MS_FAILURE, shape |-> msFreeShape(r.shp)]
          IN Convert(ogrConvertGeometry(
                       OGR_F_GetGeometryRef(Feats(psInfo.ds)[p1.pos]), shp1,
                       layer.type))

\* The read loop of msOGRFileNextShape, entered with the lock taken.
RECURSIVE msOGRFileNextShapeLoop(_, _, _)
msOGRFileNextShapeLoop(st, psInfo, shape) ==
  LET s1 == OGRCall(st, "OGR_L_GetNextFeature")
  IN IF psInfo.pos >= Len(Feats(psInfo.ds))
     THEN [st |-> RELEASE_OGR_LOCK(s1),
           psInfo |-> [psInfo EXCEPT !.last_record_index_read = -1],
           status |-> MS_DONE, shape |-> shape]
     ELSE LET p1 == [psInfo EXCEPT !.pos = @ + 1,
                                   !.last_record_index_read = @ + 1]
              hFeature == [ds |-> psInfo.ds, fid |-> FidOf(p1.pos)]
              shp1 == IF st.numitems > 0
                      THEN [shape EXCEPT !.values = msOGRGetValues(hFeature)]
                      ELSE shape
              s2 == Converted(s1, Feats(psInfo.ds)[p1.pos])
              \* r is what ogrConvertGeometry made of the feature
              Convert(r) ==
                IF r.status = MS_SUCCESS
                THEN IF r.shp.type # MS_SHAPE_NULL
                     THEN [st |-> RELEASE_OGR_LOCK(s2),
                           psInfo |-> [p1 EXCEPT !.hLastFeature = hFeature],
                           status |-> MS_SUCCESS,
                           shape |-> [r.shp EXCEPT
                                        !.index = hFeature.fid,
                                        !.resultindex =
                                           p1.last_record_index_read,
                                        !.tileindex = psInfo.nTileId]]
                     ELSE msOGRFileNextShapeLoop(s2, p1,
                            [msFreeShape(r.shp) EXCEPT !.type = MS_SHAPE_NULL])
                ELSE [st |-> RELEASE_OGR_LOCK(s2), psInfo |-> p1,
                      status |-> MS_FAILURE, shape |-> msFreeShape(r.shp)]
          IN Convert(ogrConvertGeometry(
                       OGR_F_GetGeometryRef(Feats(psInfo.ds)[p1.pos]), shp1,
                       layer.type))

\* Sequential fetch from the file info (<< >> for NULL).
msOGRFileNextShape(st, info, shape) ==
  IF info = << >>
  THEN [st |-> Fetched(Fetching(st, "msOGRFileNextShape"), MS_FAILURE),
        psInfo |-> info, status |-> MS_FAILURE, shape |-> shape]
  ELSE LET Return(r) == [r EXCEPT !.psInfo = <<@>>,
                                  !.st = Fetched(@, r.status)]
       IN Return(msOGRFileNextShapeLoop(
                   ACQUIRE_OGR_LOCK(Fetching(st, "msOGRFileNextShape")),
                   info[1],
                   [msFreeShape(shape) EXCEPT !.type = MS_SHAPE_NULL]))

\* The seek of msOGRFileGetShape reading one feature past the offset.
RECURSIVE msOGRFileGetShapeSeekOneMore(_, _, _)
msOGRFileGetShapeSeekOneMore(st, psInfo, record) ==
  IF psInfo.last_record_index_read <= record
  THEN LET s1 == OGRCall(st, "OGR_L_GetNextFeature")
       IN IF psInfo.pos >= Len(Feats(psInfo.ds))
          THEN [st |-> s1, psInfo |-> psInfo, found |-> FALSE]
          ELSE msOGRFileGetShapeSeekOneMore(s1,
                 [psInfo EXCEPT !.pos = @ + 1,
                                !.last_record_index_read = @ + 1], record)
  ELSE [st |-> st, psInfo |-> psInfo, found |-> TRUE]

\* The loop of msOGRFileGetShape that reads up to result offset record.
RECURSIVE msOGRFileGetShapeSeek(_, _, _)
msOGRFileGetShapeSeek(st, psInfo, record) ==
  IF psInfo.last_record_index_read < record
  THEN LET s1 == OGRCall(st, "OGR_L_GetNextFeature")
       IN IF psInfo.pos >= Len(Feats(psInfo.ds))
          THEN [st |-> s1, psInfo |-> psInfo, found |-> FALSE]
          ELSE msOGRFileGetShapeSeek(s1,
                 [psInfo EXCEPT !.pos = @ + 1,
                                !.last_record_index_read = @ + 1], record)
  ELSE [st |-> st, psInfo |-> psInfo, found |-> TRUE]

\* msOGRFileGetShape without the test of the converted shape's type.
msOGRFileGetShapeAcceptsNull(st, info, shape, record, record_is_fid) ==
  IF info = << >>
  THEN [st |-> Fetched(Fetching(st, "msOGRFileGetShape"), MS_FAILURE),
        psInfo |-> info, status |-> MS_FAILURE, shape |-> shape]
  ELSE
  LET psInfo == info[1]
      n == Len(Feats(psInfo.ds))
      shp0 == [msFreeShape(shape) EXCEPT !.type = MS_SHAPE_NULL]
      s0 == ACQUIRE_OGR_LOCK(Fetching(st, "msOGRFileGetShape"))
      reset == ~record_is_fid /\ (record <= psInfo.last_record_index_read
                                  \/ psInfo.last_record_index_read = -1)
      \* k is the outcome of looking the feature up
      Sought(k) ==
        IF ~k.found
        THEN [st |-> Fetched(RELEASE_OGR_LOCK(k.st), MS_FAILURE),
              psInfo |-> <<k.psInfo>>, status |-> MS_FAILURE, shape |-> shp0]
        ELSE
        LET i == IF record_is_fid THEN record + 1 ELSE k.psInfo.pos
            hFeature == [ds |-> psInfo.ds, fid |-> FidOf(i)]
            s1 == Converted(k.st, Feats(psInfo.ds)[i])
            Convert(r) ==
              IF r.status # MS_SUCCESS
              THEN [st |-> Fetched(RELEASE_OGR_LOCK(s1), MS_FAILURE),
                    psInfo |-> <<k.psInfo>>, status |-> MS_FAILURE,
                    shape |-> r.shp]
              ELSE [st |-> Fetched(RELEASE_OGR_LOCK(s1), MS_SUCCESS),
                    psInfo |-> <<[k.psInfo EXCEPT !.hLastFeature = hFeature]>>,
                    status |-> MS_SUCCESS,
                    shape |-> [r.shp EXCEPT
                      !.values = IF st.numitems > 0
                                 THEN msOGRGetValues(hFeature) ELSE << >>,
                      !.index = IF record_is_fid THEN record ELSE hFeature.fid,
                      !.resultindex = IF record_is_fid THEN -1 ELSE record,
                      !.tileindex = psInfo.nTileId]]
        IN Convert(ogrConvertGeometry(
                     OGR_F_GetGeometryRef(Feats(psInfo.ds)[i]), shp0,
                     layer.type))
  IN Sought(IF record_is_fid
            THEN [st |-> OGRCall(s0, "OGR_L_GetFeature"), psInfo |-> psInfo,
                  found |-> record \in {FidOf(i) : i \in 1..n}]
            ELSE msOGRFileGetShapeSeek(
                   IF reset THEN OGRCall(s0, "OGR_L_ResetReading") ELSE s0,
                   IF reset THEN [psInfo EXCEPT !.pos = 0,
                                                !.last_record_index_read = -1]
                   ELSE psInfo,
                   record))

\* Fetch by feature id or by result offset from the file info.
msOGRFileGetShape(st, info, shape, record, record_is_fid) ==
  IF info = << >>
  THEN [st |-> Fetched(Fetching(st, "msOGRFileGetShape"), MS_FAILURE),
        psInfo |-> info, status |-> MS_FAILURE, shape |-> shape]
  ELSE
  LET psInfo == info[1]
      n == Len(Feats(psInfo.ds))
      shp0 == [msFreeShape(shape) EXCEPT !.type = MS_SHAPE_NULL]
      s0 == ACQUIRE_OGR_LOCK(Fetching(st, "msOGRFileGetShape"))
      reset == ~record_is_fid /\ (record <= psInfo.last_record_index_read
                                  \/ psInfo.last_record_index_read = -1)
      \* k is the outcome of looking the feature up
      Sought(k) ==
        IF ~k.found
        THEN [st |-> Fetched(RELEASE_OGR_LOCK(k.st), MS_FAILURE),
              psInfo |-> <<k.psInfo>>, status |-> MS_FAILURE, shape |-> shp0]
        ELSE
        LET i == IF record_is_fid THEN record + 1 ELSE k.psInfo.pos
            hFeature == [ds |-> psInfo.ds, fid |-> FidOf(i)]
            s1 == Converted(k.st, Feats(psInfo.ds)[i])
            Convert(r) ==
              IF r.status # MS_SUCCESS \/ r.shp.type = MS_SHAPE_NULL
              THEN [st |-> Fetched(RELEASE_OGR_LOCK(s1), MS_FAILURE),
                    psInfo |-> <<k.psInfo>>, status |-> MS_FAILURE,
                    shape |-> r.shp]
              ELSE [st |-> Fetched(RELEASE_OGR_LOCK(s1), MS_SUCCESS),
                    psInfo |-> <<[k.psInfo EXCEPT !.hLastFeature = hFeature]>>,
                    status |-> MS_SUCCESS,
                    shape |-> [r.shp EXCEPT
                      !.values = IF st.numitems > 0
                                 THEN msOGRGetValues(hFeature) ELSE << >>,
                      !.index = IF record_is_fid THEN record ELSE hFeature.fid,
                      !.resultindex = IF record_is_fid THEN -1 ELSE record,
                      !.tileindex = psInfo.nTileId]]
        IN Convert(ogrConvertGeometry(
                     OGR_F_GetGeometryRef(Feats(psInfo.ds)[i]), shp0,
                     layer.type))
  IN Sought(IF record_is_fid
            THEN [st |-> OGRCall(s0, "OGR_L_GetFeature"), psInfo |-> psInfo,
                  found |-> record \in {FidOf(i) : i \in 1..n}]
            ELSE msOGRFileGetShapeSeek(
                   IF reset THEN OGRCall(s0, "OGR_L_ResetReading") ELSE s0,
                   IF reset THEN [psInfo EXCEPT !.pos = 0,
                                                !.last_record_index_read = -1]
                   ELSE psInfo,
                   record))

\* Notes a call of msOGRFileReadTile, made with the index cursor after
\* from records, and what it returned: the id of the record whose tile it
\* activated, whether it found the index exhausted, and its status.
Called(st, targetTile) ==
  [st EXCEPT !.trace.readTile =
     Append(@, [target |-> targetTile, from |-> st.layerinfo[1].pos,
                tile |-> -1, exhausted |-> FALSE, status |-> "pending"])]

Returned(st, tile, exhausted, status) ==
  [st |-> [st EXCEPT !.trace.readTile[Len(st.trace.readTile)] =
                       [@ EXCEPT !.tile = tile, !.exhausted = exhausted,
                                 !.status = status]],
   status |-> status]

\* A build that defines IGNORE_MISSING_DATA.
IGNORE_MISSING_DATA_defined == TRUE

\* The build does not define IGNORE_MISSING_DATA: the code between
\* #ifndef IGNORE_MISSING_DATA and #endif is compiled.
IGNORE_MISSING_DATA == FALSE

RECURSIVE msOGRLayerInitItemInfo(_)

\* msOGRFileReadTile from the label NextFile on.
RECURSIVE msOGRFileReadTileNextFile(_, _)
msOGRFileReadTileNextFile(st, targetTile) ==
  LET psInfo == st.layerinfo[1]
      s1 == OGRCall(st, IF targetTile < 0 THEN "OGR_L_GetNextFeature"
                        ELSE "OGR_L_GetFeature")
      i == IF targetTile < 0 THEN psInfo.pos + 1 ELSE targetTile + 1
      hFeature == i \in 1..Len(tiles)
      s2 == IF targetTile < 0 /\ hFeature
            THEN [s1 EXCEPT !.layerinfo[1].pos = i] ELSE s1
      nFeatureId == FidOf(i)
      \* w is the outcome of setting the filters of the tile
      Filtered(w) ==
        IF w.status # MS_SUCCESS
        THEN Returned(w.st, -1, FALSE, w.status)
        ELSE Returned(
               msOGRLayerInitItemInfo(
                 [w.st EXCEPT !.layerinfo[1].poCurTile = <<w.psInfo>>]).st,
               nFeatureId, FALSE, MS_SUCCESS)
      \* o is the outcome of opening the tile: psTileInfo is o.info
      Opened(o) ==
        IF ~IGNORE_MISSING_DATA /\ o.info = << >> /\ targetTile = -1
        THEN msOGRFileReadTileNextFile(o.st, targetTile)
        ELSE IF o.info = << >>
        THEN Returned(o.st, -1, FALSE, MS_FAILURE)
        ELSE
        LET psTileInfo == [o.info[1] EXCEPT !.nTileId = nFeatureId]
        IN Filtered(IF psInfo.rect.minx # 0 \/ psInfo.rect.maxx # 0
                    THEN msOGRFileWhichShapes(o.st, psTileInfo, psInfo.rect,
                                              tiles[i].status)
                    ELSE [st |-> o.st, psInfo |-> psTileInfo,
                          status |-> MS_SUCCESS])
  IN IF ~hFeature
     THEN Returned(RELEASE_OGR_LOCK(s2), -1, TRUE,
                   IF targetTile = -1 THEN MS_DONE ELSE MS_FAILURE)
     ELSE Opened(msOGRFileOpen(RELEASE_OGR_LOCK(s2), i, tiles[i].status))

\* Advances the tiled cursor: to the next index record (targetTile -1), to
\* the first one (-2) or to the record with the feature id targetTile.
msOGRFileReadTile(st, targetTile) ==
  LET psInfo == st.layerinfo[1]
      s1 == IF psInfo.poCurTile # << >>
            THEN [msOGRFileClose(st, psInfo.poCurTile)
                    EXCEPT !.layerinfo[1].poCurTile = << >>]
            ELSE st
      s2 == ACQUIRE_OGR_LOCK(s1)
      s3 == IF targetTile = -2
            THEN [OGRCall(s2, "OGR_L_ResetReading")
                    EXCEPT !.layerinfo[1].pos = 0]
            ELSE s2
  IN msOGRFileReadTileNextFile(Called(s3, targetTile), targetTile)

(***************************************************************************)
(* The layer operations.  Each yields the state it leaves, its status and  *)
(* the shape it hands back.                                                *)
(***************************************************************************)
Result(st, status, shape) == [st |-> st, status |-> status, shape |-> shape]

\* outcome is what the back end makes of the open: "ok", "okauto" (with
\* PROJECTION AUTO), "missing", "badlayer", "tilesrs" (TILESRS is set),
\* "notileitem" (TILEITEM does not resolve), "projfail" (PROJECTION AUTO
\* fails).
msOGRLayerOpen(st, outcome) ==
  IF st.layerinfo # << >> THEN Result(st, MS_SUCCESS, msInitShape)
  ELSE
  LET \* o is the outcome of msOGRFileOpen: psInfo is o.info
      Opened(o) ==
        LET s1 == [o.st EXCEPT !.layerinfo = o.info]
        IN IF o.info = << >> THEN Result(s1, MS_FAILURE, msInitShape)
           ELSE IF layer.tileindex /\ outcome = "tilesrs"
           THEN Result(s1, MS_FAILURE, msInitShape)
           ELSE IF layer.tileindex /\ outcome = "notileitem"
           THEN Result([msOGRFileClose(s1, o.info)
                          EXCEPT !.layerinfo = << >>],
                       MS_FAILURE, msInitShape)
           ELSE IF outcome = "projfail"
           THEN Result([msOGRFileClose(RELEASE_OGR_LOCK(ACQUIRE_OGR_LOCK(s1)),
                                       o.info) EXCEPT !.layerinfo = << >>],
                       MS_FAILURE, msInitShape)
           ELSE IF outcome = "okauto"
           THEN Result(RELEASE_OGR_LOCK(ACQUIRE_OGR_LOCK(s1)), MS_SUCCESS,
                       msInitShape)
           ELSE Result(s1, MS_SUCCESS, msInitShape)
  IN Opened(msOGRFileOpen(st, 0, IF outcome \in {"missing", "badlayer"}
                                 THEN outcome ELSE "ok"))

msOGRLayerClose(st) ==
  IF st.layerinfo # << >>
  THEN Result([msOGRFileClose(st, st.layerinfo) EXCEPT !.layerinfo = << >>],
              MS_SUCCESS, msInitShape)
  ELSE Result(st, MS_SUCCESS, msInitShape)

msOGRLayerWhichShapes(st, rect) ==
  IF st.layerinfo = << >> THEN Result(st, MS_FAILURE, msInitShape)
  ELSE LET Read(r) == Result(r.st, r.status, msInitShape)
           \* w is the outcome of msOGRFileWhichShapes
           Filtered(w) ==
             LET s1 == [w.st EXCEPT !.layerinfo = <<w.psInfo>>]
             IN IF w.status # MS_SUCCESS \/ ~layer.tileindex
                THEN Result(s1, w.status, msInitShape)
                ELSE Read(msOGRFileReadTile(s1, -1))
       IN Filtered(msOGRFileWhichShapes(st, st.layerinfo[1], rect, "ok"))

\* The loop of msOGRLayerNextShape ending at the end of the current tile.
msOGRLayerNextShapeLoopOneTile(st, shape) ==
  LET Fetch(n) == [st |-> [n.st EXCEPT !.layerinfo[1].poCurTile = n.psInfo],
                   status |-> n.status, shape |-> n.shape]
  IN Fetch(msOGRFileNextShape(st, st.layerinfo[1].poCurTile, shape))

\* The do-while loop of msOGRLayerNextShape over the tiles.
RECURSIVE msOGRLayerNextShapeLoop(_, _)
msOGRLayerNextShapeLoop(st, shape) ==
  LET \* n is the outcome of msOGRFileNextShape on the current tile
      Fetch(n) ==
        LET Read(r) == IF r.status # MS_SUCCESS
                       THEN Result(r.st, r.status, n.shape)
                       ELSE msOGRLayerNextShapeLoop(r.st, n.shape)
        IN IF n.status # MS_DONE
           THEN Result([n.st EXCEPT !.layerinfo[1].poCurTile = n.psInfo],
                       n.status, n.shape)
           ELSE Read(msOGRFileReadTile(
                       [n.st EXCEPT !.layerinfo[1].poCurTile = n.psInfo], -1))
  IN Fetch(msOGRFileNextShape(st, st.layerinfo[1].poCurTile, shape))

msOGRLayerNextShape(st, shape) ==
  LET Fetch(n) == Result([n.st EXCEPT !.layerinfo = n.psInfo], n.status,
                         n.shape)
      Read(r) == IF r.status # MS_SUCCESS THEN Result(r.st, r.status, shape)
                 ELSE msOGRLayerNextShapeLoop(r.st, shape)
  IN IF st.layerinfo = << >> THEN Result(st, MS_FAILURE, shape)
     ELSE IF ~layer.tileindex
     THEN Fetch(msOGRFileNextShape(st, st.layerinfo, shape))
     ELSE IF st.layerinfo[1].poCurTile = << >>
     THEN Read(msOGRFileReadTile(st, -1))
     ELSE msOGRLayerNextShapeLoop(st, shape)

\* msOGRLayerGetShape reading the tile index on every call.
msOGRLayerGetShapeAlwaysReads(st, shape, record) ==
  LET record_is_fid == ~(record.resultindex >= 0)
      shapeindex == IF record.resultindex >= 0 THEN record.resultindex
                    ELSE record.shapeindex
      Fetch(g) == Result([g.st EXCEPT !.layerinfo = g.psInfo], g.status,
                         g.shape)
      FetchTile(g) == Result([g.st EXCEPT !.layerinfo[1].poCurTile = g.psInfo],
                             g.status, g.shape)
      Read(r) == IF r.status # MS_SUCCESS THEN Result(r.st, MS_FAILURE, shape)
                 ELSE FetchTile(msOGRFileGetShape(
                        r.st, r.st.layerinfo[1].poCurTile, shape, shapeindex,
                        record_is_fid))
  IN IF st.layerinfo = << >> THEN Result(st, MS_FAILURE, shape)
     ELSE IF ~layer.tileindex
     THEN Fetch(msOGRFileGetShape(st, st.layerinfo, shape, shapeindex,
                                  record_is_fid))
     ELSE Read(msOGRFileReadTile(st, record.tileindex))

\* record is the resultObj: shapeindex, tileindex, resultindex.
msOGRLayerGetShape(st, shape, record) ==
  LET record_is_fid == ~(record.resultindex >= 0)
      shapeindex == IF record.resultindex >= 0 THEN record.resultindex
                    ELSE record.shapeindex
      Fetch(g) == Result([g.st EXCEPT !.layerinfo = g.psInfo], g.status,
                         g.shape)
      FetchTile(g) == Result([g.st EXCEPT !.layerinfo[1].poCurTile = g.psInfo],
                             g.status, g.shape)
      Read(r) == IF r.status # MS_SUCCESS THEN Result(r.st, MS_FAILURE, shape)
                 ELSE FetchTile(msOGRFileGetShape(
                        r.st, r.st.layerinfo[1].poCurTile, shape, shapeindex,
                        record_is_fid))
  IN IF st.layerinfo = << >> THEN Result(st, MS_FAILURE, shape)
     ELSE IF ~layer.tileindex
     THEN Fetch(msOGRFileGetShape(st, st.layerinfo, shape, shapeindex,
                                  record_is_fid))
     ELSE Read(IF st.layerinfo[1].poCurTile = << >>
                  \/ st.layerinfo[1].poCurTile[1].nTileId # record.tileindex
               THEN msOGRFileReadTile(st, record.tileindex)
               ELSE [st |-> st, status |-> MS_SUCCESS])

\* outcome is what becomes of the class: "ok", "noalloc" when
\* msMaybeAllocateClassStyle fails, "nodecode" when msOGRUpdateStyle does.
\* feature is the feature whose style string was decoded.
msOGRLayerGetAutoStyle(st, shape, outcome) ==
  LET None(s) == [st |-> s, status |-> MS_FAILURE, feature |-> NoFeature]
      Styled(s, psInfo) ==
        IF psInfo.hLastFeature = NoFeature
             \/ psInfo.last_record_index_read # shape.resultindex
        THEN None(RELEASE_OGR_LOCK(s))
        ELSE IF outcome = "noalloc" THEN None(RELEASE_OGR_LOCK(s))
        ELSE [st |-> RELEASE_OGR_LOCK(s),
              status |-> IF outcome = "ok" THEN MS_SUCCESS ELSE MS_FAILURE,
              feature |-> psInfo.hLastFeature]
      Tile(r) ==
        IF r.status # MS_SUCCESS THEN None(r.st)
        ELSE Styled(ACQUIRE_OGR_LOCK(r.st), r.st.layerinfo[1].poCurTile[1])
  IN IF st.layerinfo = << >> THEN None(st)
     ELSE IF layer.tileindex
     THEN Tile(IF st.layerinfo[1].poCurTile = << >>
                  \/ shape.tileindex # st.layerinfo[1].poCurTile[1].nTileId
               THEN msOGRFileReadTile(st, -1)
               ELSE [st |-> st, status |-> MS_SUCCESS])
     ELSE Styled(ACQUIRE_OGR_LOCK(st), st.layerinfo[1])

\* Called with layer->numitems set by the caller.  On a tiled layer the
\* code reads psInfo->poCurTile before it tests psInfo: layerinfo is not
\* NULL there.
msOGRLayerInitItemInfo(st) ==
  LET Read(r) == Result(r.st, IF r.status # MS_SUCCESS THEN MS_FAILURE
                              ELSE MS_SUCCESS, msInitShape)
  IN IF st.numitems = 0 THEN Result(st, MS_SUCCESS, msInitShape)
     ELSE IF layer.tileindex
     THEN IF st.layerinfo[1].poCurTile = << >>
          THEN Read(msOGRFileReadTile(st, -2))
          ELSE Result(st, MS_SUCCESS, msInitShape)
     ELSE IF st.layerinfo = << >> THEN Result(st, MS_FAILURE, msInitShape)
     ELSE Result(st, MS_SUCCESS, msInitShape)

msOGRLayerGetItems(st) ==
  LET Read(r) == IF r.status # MS_SUCCESS
                 THEN Result(r.st, MS_FAILURE, msInitShape)
                 ELSE msOGRLayerInitItemInfo([r.st EXCEPT !.numitems = 1])
  IN IF st.layerinfo = << >> THEN Result(st, MS_FAILURE, msInitShape)
     ELSE Read(IF layer.tileindex /\ st.layerinfo[1].poCurTile = << >>
               THEN msOGRFileReadTile(st, -1)
               ELSE [st |-> st, status |-> MS_SUCCESS])

\* ok tells whether the back end can compute the extent.
msOGRLayerGetExtent(st, ok) ==
  IF st.layerinfo = << >> THEN Result(st, MS_FAILURE, msInitShape)
  ELSE Result(RELEASE_OGR_LOCK(OGRCall(ACQUIRE_OGR_LOCK(st),
                                       "OGR_L_GetExtent")),
              IF ok THEN MS_SUCCESS ELSE MS_FAILURE, msInitShape)


(***************************************************************************)
(* The filter translator, msOGRTranslateMsExpressionToOGRSQL.              *)
(*                                                                         *)
(* A char* is << >> when NULL and <<s>> when it points to the string s; a  *)
(* string is the sequence of its pieces (characters, or the fixed texts    *)
(* the code prints).  A token is a tokenListNodeObj: token is its kind and *)
(* bindval, strval, dblval, shpval the members of tokenval.  Token kinds    *)
(* are written as their names, "MS_TOKEN_LOGICAL_AND".                     *)
(***************************************************************************)
MaxSegs == 3

MS_TRUE == 1
MS_FALSE == 0

\* The operator and parenthesis tokens that are copied to the output.
CopiedTokens ==
  {"MS_TOKEN_COMPARISON_EQ", "MS_TOKEN_COMPARISON_NE", "MS_TOKEN_COMPARISON_GT",
   "MS_TOKEN_COMPARISON_GE", "MS_TOKEN_COMPARISON_LT", "MS_TOKEN_COMPARISON_LE",
   "MS_TOKEN_LOGICAL_AND", "MS_TOKEN_LOGICAL_NOT", "MS_TOKEN_LOGICAL_OR", "(", ")"}

MS_MAX(a, b) == IF a > b THEN a ELSE b

MS_MIN(a, b) == IF a < b THEN a ELSE b

\* A literal shape of the expression: its type, rings and bounds.
LiteralShape(type, line, bounds) ==
  [type |-> type, line |-> line, bounds |-> bounds]

NoShape == LiteralShape(MS_SHAPE_NULL, << >>, [minx |-> -1, miny |-> -1,
                                               maxx |-> -1, maxy |-> -1])

Token(token) ==
  [token |-> token, bindval |-> << >>, strval |-> << >>, dblval |-> 0,
   shpval |-> NoShape]

\* strlen of a char*; of NULL it is undefined.
strlen(s) == Len(s[1])

\* The text of sprintf("%lf") for the whole numbers of the model.
FormatLf(dblval) == <<ToString(dblval), ".", "000000">>

\* CPLEscapeString(CPLES_SQL): every single quote is doubled.
RECURSIVE CPLEscapeString(_)
CPLEscapeString(s) ==
  IF s = << >> THEN << >>
  ELSE (IF Head(s) = "'" THEN <<"'", "'">> ELSE <<Head(s)>>)
       \o CPLEscapeString(Tail(s))

\* NULL for an empty string.
msOGREscapeSQLParam(pszString) ==
  IF Len(pszString) > 0 THEN <<CPLEscapeString(pszString)>> ELSE << >>

\* isalnum(ch) || ch == '_' over the characters of the model.
IsNameChar(ch) == ch \in {"a", "b", "f", "x", "_", "1"}

\* NULL for an empty name, "invalid_property_name" for a name with a
\* character that is neither alphanumeric nor an underscore.
msOGREscapePropertyName(pszString) ==
  IF Len(pszString) > 0
  THEN IF \E i \in 1..Len(pszString) : ~IsNameChar(pszString[i])
       THEN <<<<"invalid_property_name">>>>
       ELSE <<pszString>>
  ELSE << >>

\* The text of an operator or parenthesis token.
msExpressionTokenToString(token) == <<token>>

\* msStringConcatenate: pszDest may be NULL.
msStringConcatenate(pszDest, pszSrc) ==
  IF pszDest = << >> THEN <<pszSrc>> ELSE <<pszDest[1] \o pszSrc>>

\* msStrdup of NULL is the empty string.
msStrdup(pszString) == IF pszString = << >> THEN <<<< >>>> ELSE pszString

\* The two templates of a field binding, with their strlen.
CastTemplate == [text |-> "CAST(%s AS CHARACTER)", len |-> 21]

BareTemplate == [text |-> "%s", len |-> 2]

\* A binding printed without regard to the template.
FormatBindingBare(strtmpl, stresc) == stresc

\* sprintf(snippet, strtmpl, stresc)
FormatBinding(strtmpl, stresc) ==
  IF strtmpl = CastTemplate THEN <<"CAST(">> \o stresc \o <<" AS CHARACTER)">>
  ELSE stresc

\* The test for a rectangle at lines 1423-1436.
IsIntersectRectangle(shape) ==
  /\ shape.type = MS_SHAPE_POLYGON
  /\ Len(shape.line) = 1
  /\ Len(shape.line[1]) = 5
  /\ LET point == shape.line[1]
     IN /\ point[1][1] = point[2][1]
        /\ point[1][2] = point[4][2]
        /\ point[3][1] = point[4][1]
        /\ point[2][2] = point[3][2]
        /\ point[1][1] = point[5][1]
        /\ point[1][2] = point[5][2]

\* The locals of the function at its start, with what the loop has done so
\* far: the positions it dispatched on, the snippets it added to
\* msSQLExpression with the position of their token, the positions of the
\* intersects tokens it recognised, and the undefined behaviour it executed.
TranslateStart ==
  [msSQLExpression |-> << >>, strtmpl |-> << >>, sBBOX |-> ZeroRect,
   sBBOXValid |-> FALSE, bIsIntersectRectangle |-> FALSE,
   cleanup |-> FALSE, visited |-> {}, snippets |-> << >>,
   recognized |-> << >>, ub |-> {}]

\* node->next ... ->token, k nodes after position i.  Past the end of the
\* list the code reads through a NULL pointer.
NextToken(tokens, i, k) ==
  IF i + k <= Len(tokens) THEN tokens[i + k].token ELSE "(null)"

\* The while loop of the function from the node at position i on.  wild is
\* what a read through a NULL node reads when the process survives it: a
\* regular-expression operator or not.
RECURSIVE msOGRTranslateLoop(_, _, _, _)
msOGRTranslateLoop(tokens, i, a, wild) ==
  IF i > Len(tokens) THEN a
  ELSE
  LET node == tokens[i]
      v == [a EXCEPT !.visited = @ \cup {i}]
      Emit(b, snippet) ==
        [b EXCEPT !.msSQLExpression = msStringConcatenate(@, snippet),
                  !.snippets = Append(@, [pos |-> i, text |-> snippet])]
  IN
  CASE node.token = "MS_TOKEN_LITERAL_NUMBER" ->
         msOGRTranslateLoop(tokens, i + 1,
           Emit([v EXCEPT !.ub = IF v.strtmpl = << >>
                                 THEN @ \cup {"strlen(strtmpl)"} ELSE @],
                FormatLf(node.dblval)),
           wild)
    [] node.token = "MS_TOKEN_LITERAL_STRING" ->
         LET stresc == msOGREscapeSQLParam(node.strval)
             \* the buffer has strlen(strtmpl) + strlen(stresc) bytes; the
             \* text has strlen(stresc) + 2 characters and a terminator
             u == (IF v.strtmpl = << >> THEN {"strlen(strtmpl)"} ELSE {})
                  \cup (IF stresc = << >> THEN {"strlen(stresc)"} ELSE {})
                  \cup (IF v.strtmpl # << >> /\ stresc # << >>
                           /\ v.strtmpl[1].len + strlen(stresc)
                                < strlen(stresc) + 3
                        THEN {"sprintf(snippet)"} ELSE {})
         IN msOGRTranslateLoop(tokens, i + 1,
              Emit([v EXCEPT !.ub = @ \cup u],
                   <<"'">> \o (IF stresc = << >> THEN << >> ELSE stresc[1])
                           \o <<"'">>),
              wild)
    [] node.token \in {"MS_TOKEN_BINDING_DOUBLE", "MS_TOKEN_BINDING_INTEGER",
                       "MS_TOKEN_BINDING_STRING"} ->
         LET isString == node.token = "MS_TOKEN_BINDING_STRING"
             atEnd == i = Len(tokens)
             nextIsRE == IF atEnd THEN wild
                         ELSE tokens[i + 1].token \in
                                {"MS_TOKEN_COMPARISON_RE",
                                 "MS_TOKEN_COMPARISON_IRE"}
             strtmpl == IF isString \/ nextIsRE THEN CastTemplate
                        ELSE BareTemplate
             stresc == msOGREscapePropertyName(node.bindval)
             u == (IF ~isString /\ atEnd THEN {"node->next->token"} ELSE {})
                  \cup (IF stresc = << >> THEN {"strlen(stresc)"} ELSE {})
         IN msOGRTranslateLoop(tokens, i + 1,
              Emit([v EXCEPT !.strtmpl = <<strtmpl>>,
                             !.ub = @ \cup u],
                   FormatBinding(strtmpl,
                                 IF stresc = << >> THEN << >> ELSE stresc[1])),
              wild)
    [] node.token = "MS_TOKEN_COMPARISON_INTERSECTS" ->
         IF i + 7 > Len(tokens)
            /\ \A k \in 1..(Len(tokens) - i) :
                 NextToken(tokens, i, k) =
                   <<"(", "MS_TOKEN_BINDING_SHAPE", ",", "MS_TOKEN_LITERAL_SHAPE",
                     ")", "MS_TOKEN_COMPARISON_EQ",
                     "MS_TOKEN_LITERAL_BOOLEAN">>[k]
         THEN \* the list ends inside the sequence: the next test reads
              \* through a NULL node
              [v EXCEPT !.cleanup = TRUE, !.ub = @ \cup {"node->next->token"}]
         ELSE IF \/ NextToken(tokens, i, 1) # "("
                 \/ NextToken(tokens, i, 2) # "MS_TOKEN_BINDING_SHAPE"
                 \/ NextToken(tokens, i, 3) # ","
                 \/ NextToken(tokens, i, 4) # "MS_TOKEN_LITERAL_SHAPE"
                 \/ NextToken(tokens, i, 5) # ")"
                 \/ NextToken(tokens, i, 6) # "MS_TOKEN_COMPARISON_EQ"
                 \/ NextToken(tokens, i, 7) # "MS_TOKEN_LITERAL_BOOLEAN"
                 \/ tokens[i + 7].dblval # MS_TRUE
         THEN [v EXCEPT !.cleanup = TRUE]
         ELSE LET shape == tokens[i + 4].shpval
                  b == [v EXCEPT !.sBBOX = shape.bounds,
                                 !.sBBOXValid = TRUE,
                                 !.bIsIntersectRectangle =
                                    @ \/ IsIntersectRectangle(shape),
                                 !.recognized = Append(@, i)]
                  \* node is now the boolean literal; a logical AND after
                  \* it is stepped over
                  n == IF NextToken(tokens, i, 8) = "MS_TOKEN_LOGICAL_AND"
                       THEN i + 8 ELSE i + 7
              IN msOGRTranslateLoop(tokens, n + 1, b, wild)
    [] node.token \in CopiedTokens ->
         IF node.token = "MS_TOKEN_LOGICAL_AND"
            /\ NextToken(tokens, i, 1) = "MS_TOKEN_COMPARISON_INTERSECTS"
         THEN \* node = node->next here, and again at the end of the loop
              msOGRTranslateLoop(tokens, i + 2, v, wild)
         ELSE msOGRTranslateLoop(tokens, i + 1,
                Emit(v, msExpressionTokenToString(node.token)), wild)
    [] OTHER -> [v EXCEPT !.cleanup = TRUE]

\* A refinement that takes the upper x bound from the lower one.
msOGRTranslateRefineSwapped(psRect, sBBOX) ==
  [minx |-> MS_MAX(psRect.minx, sBBOX.minx),
   miny |-> MS_MAX(psRect.miny, sBBOX.miny),
   maxx |-> MS_MIN(psRect.minx, sBBOX.maxx),
   maxy |-> MS_MAX(psRect.maxy, sBBOX.maxy)]

\* The rectangle the function leaves in *psRect after a spatial predicate.
msOGRTranslateRefine(psRect, sBBOX) ==
  [minx |-> MS_MAX(psRect.minx, sBBOX.minx),
   miny |-> MS_MAX(psRect.miny, sBBOX.miny),
   maxx |-> MS_MIN(psRect.maxx, sBBOX.maxx),
   maxy |-> MS_MAX(psRect.maxy, sBBOX.maxy)]

\* The function: what it returns, what it leaves in
\* layer->filter.native_string and in *psRect, and the locals at its end.
msOGRTranslateMsExpressionToOGRSQL(tokens, native_string, psRect, wild) ==
  LET Done(a) ==
        IF a.cleanup
        THEN [ret |-> << >>, native_string |-> native_string,
              psRect |-> psRect, loop |-> a]
        ELSE [ret |-> a.msSQLExpression,
              native_string |->
                IF ~a.sBBOXValid \/ a.bIsIntersectRectangle
                THEN msStrdup(a.msSQLExpression) ELSE native_string,
              psRect |-> IF a.sBBOXValid
                         THEN msOGRTranslateRefine(psRect, a.sBBOX)
                         ELSE psRect,
              loop |-> a]
  IN Done(msOGRTranslateLoop(tokens, 1, TranslateStart, wild))

(***************************************************************************)
(* The expressions the translator is checked on: up to MaxSegs segments,   *)
(* each an intersects sequence, a string equality or a single token.       *)
(***************************************************************************)
\* A polygon of one ring, with its bounds.
Ring(pts, minx, miny, maxx, maxy) ==
  LiteralShape(MS_SHAPE_POLYGON, <<pts>>,
               [minx |-> minx, miny |-> miny, maxx |-> maxx, maxy |-> maxy])

\* A rectangle in the order of its corners that msRectToPolygon gives:
\* (minx,miny) (minx,maxy) (maxx,maxy) (maxx,miny) (minx,miny).
RectShape ==
  Ring(<<<<1, 1>>, <<1, 2>>, <<2, 2>>, <<2, 1>>, <<1, 1>>>>, 1, 1, 2, 2)

\* A rectangle whose ring starts along the x axis.
RowRectShape ==
  Ring(<<<<0, 0>>, <<3, 0>>, <<3, 3>>, <<0, 3>>, <<0, 0>>>>, 0, 0, 3, 3)

TriangleShape == Ring(<<<<2, 0>>, <<3, 3>>, <<3, 0>>, <<2, 0>>>>, 2, 0, 3, 3)

Binding(token, item) == [Token(token) EXCEPT !.bindval = item]

StringLiteral(s) == [Token("MS_TOKEN_LITERAL_STRING") EXCEPT !.strval = s]

\* intersects([shape], literal) = b
IntersectsSeq(shape, b) ==
  <<Token("MS_TOKEN_COMPARISON_INTERSECTS"), Token("("),
    Token("MS_TOKEN_BINDING_SHAPE"), Token(","),
    [Token("MS_TOKEN_LITERAL_SHAPE") EXCEPT !.shpval = shape], Token(")"),
    Token("MS_TOKEN_COMPARISON_EQ"),
    [Token("MS_TOKEN_LITERAL_BOOLEAN") EXCEPT !.dblval = b]>>

\* [f] = 'x'
StringEquality ==
  <<Binding("MS_TOKEN_BINDING_STRING", <<"f">>), Token("MS_TOKEN_COMPARISON_EQ"),
    StringLiteral(<<"x">>)>>

Segments ==
  {IntersectsSeq(RectShape, MS_TRUE), IntersectsSeq(TriangleShape, MS_TRUE),
   IntersectsSeq(RowRectShape, MS_TRUE), IntersectsSeq(RectShape, MS_FALSE),
   <<Token("MS_TOKEN_COMPARISON_INTERSECTS")>>,
   StringEquality,
   <<Token("MS_TOKEN_LOGICAL_AND")>>, <<Token("MS_TOKEN_LOGICAL_OR")>>,
   <<Binding("MS_TOKEN_BINDING_STRING", <<"f">>)>>,
   <<Binding("MS_TOKEN_BINDING_DOUBLE", <<"a", " ">>)>>,
   <<Binding("MS_TOKEN_BINDING_INTEGER", <<"b", "1">>)>>,
   <<Token("MS_TOKEN_COMPARISON_EQ")>>, <<Token("MS_TOKEN_COMPARISON_RE")>>,
   <<Token("MS_TOKEN_COMPARISON_IRE")>>,
   <<StringLiteral(<<"a", "'">>)>>, <<StringLiteral(<< >>)>>,
   <<[Token("MS_TOKEN_LITERAL_NUMBER") EXCEPT !.dblval = 1]>>,
   <<Token("MS_TOKEN_LITERAL_TIME")>>}

RECURSIVE Flatten(_)
Flatten(segs) ==
  IF segs = << >> THEN << >> ELSE Head(segs) \o Flatten(Tail(segs))

FilterExpressions == {Flatten(s) : s \in SeqUpTo(Segments, MaxSegs)}

\* The view rectangles the caller passes in.
ViewRects == {[minx |-> 0, miny |-> 0, maxx |-> 2, maxy |-> 2],
              [minx |-> 0, miny |-> 0, maxx |-> 4, maxy |-> 4]}

\* The native string of an earlier translation.
OldNativeString == <<<<"o", "l", "d">>>>

(***************************************************************************)
(* State of the filter translation: fTokens is psFilter->tokens, fView the *)
(* rectangle the caller passed, fRect *psRect, fNative                     *)
(* layer->filter.native_string, and fOut what the call did: state is       *)
(* "none" before the call, "returned" after it, "crashed" when the process *)
(* did not survive undefined behaviour.                                    *)
(***************************************************************************)
VARIABLES fTokens, fView, fRect, fNative, fOut

fvars == <<fTokens, fView, fRect, fNative, fOut>>

NoTranslation == [state |-> "none", ret |-> << >>, loop |-> TranslateStart]

IdleFilter ==
  /\ fTokens = << >>
  /\ fView = ZeroRect
  /\ fRect = ZeroRect
  /\ fNative = << >>
  /\ fOut = [NoTranslation EXCEPT !.state = "idle"]

(***************************************************************************)
(* The style decoder, msOGRUpdateStyle.  A part of an OGR style string is  *)
(* a record: type is its tool, priority its 'l' parameter (<< >> when the  *)
(* parameter is null), invisible tells a brush named ogr-brush-1; a part   *)
(* of type "NULL" is one OGR_SM_GetPart does not return.  A styleObj is    *)
(* named by id, the order of its allocation, and records in parts the      *)
(* indexes of the parts parsed into it.                                    *)
(***************************************************************************)
MaxParts == 3

INT_MIN == -2147483647 - 1

Part(type, priority, invisible) ==
  [type |-> type, priority |-> priority, invisible |-> invisible]

Priorities == {<< >>, <<1>>, <<3>>, <<5>>}

StyleParts ==
  {Part(t, p, FALSE) : t \in {"OGRSTCPen", "OGRSTCBrush", "OGRSTCSymbol"},
                       p \in Priorities}
    \cup {Part("OGRSTCBrush", << >>, TRUE),
          Part("OGRSTCLabel", << >>, FALSE), Part("NULL", << >>, FALSE)}

StyleStrings == SeqUpTo(StyleParts, MaxParts)

\* resetClassStyle leaves a class without styles and labels.
resetClassStyle == [styles |-> << >>, numlabels |-> 0]

\* The loop of msOGRUpdateStyleCheckPenBrushOnly from part i, Symbol parts
\* counting as any other part.
RECURSIVE msOGRUpdateStyleCheckPenBrushOnlyLoopNoSymbol(_, _, _, _)
msOGRUpdateStyleCheckPenBrushOnlyLoopNoSymbol(parts, i, countPen, countBrush) ==
  IF i >= Len(parts) THEN countPen = 1 /\ countBrush = 1
  ELSE LET part == parts[i + 1]
       IN IF part.type \in {"OGRSTCPen", "OGRSTCBrush"}
               /\ part.priority # << >>
          THEN FALSE
          ELSE msOGRUpdateStyleCheckPenBrushOnlyLoopNoSymbol(
                 parts, i + 1,
                 countPen + (IF part.type = "OGRSTCPen" THEN 1 ELSE 0),
                 countBrush + (IF part.type = "OGRSTCBrush" THEN 1 ELSE 0))

\* The loop of msOGRUpdateStyleCheckPenBrushOnly from part i.
RECURSIVE msOGRUpdateStyleCheckPenBrushOnlyLoop(_, _, _, _)
msOGRUpdateStyleCheckPenBrushOnlyLoop(parts, i, countPen, countBrush) ==
  IF i >= Len(parts) THEN countPen = 1 /\ countBrush = 1
  ELSE LET part == parts[i + 1]
       IN CASE part.type = "NULL" ->
                 msOGRUpdateStyleCheckPenBrushOnlyLoop(
                   parts, i + 1, countPen, countBrush)
            [] part.type = "OGRSTCPen" ->
                 IF part.priority # << >> THEN FALSE
                 ELSE msOGRUpdateStyleCheckPenBrushOnlyLoop(
                        parts, i + 1, countPen + 1, countBrush)
            [] part.type = "OGRSTCBrush" ->
                 IF part.priority # << >> THEN FALSE
                 ELSE msOGRUpdateStyleCheckPenBrushOnlyLoop(
                        parts, i + 1, countPen, countBrush + 1)
            [] part.type = "OGRSTCSymbol" -> FALSE
            [] OTHER ->
                 msOGRUpdateStyleCheckPenBrushOnlyLoop(
                   parts, i + 1, countPen, countBrush)

msOGRUpdateStyleCheckPenBrushOnly(parts) ==
  msOGRUpdateStyleCheckPenBrushOnlyLoop(parts, 0, 0, 0)

\* nApparitionIndex alone: the order of discovery.
msOGRUpdateStyleSortFctApparition(sssa, sssb) ==
  IF sssa.nApparitionIndex < sssb.nApparitionIndex THEN -1 ELSE 1

msOGRUpdateStyleSortFct(sssa, sssb) ==
  IF sssa.nPriority < sssb.nPriority THEN -1
  ELSE IF sssa.nPriority > sssb.nPriority THEN 1
  ELSE IF sssa.nApparitionIndex < sssb.nApparitionIndex THEN -1
  ELSE 1

\* qsort with msOGRUpdateStyleSortFct: the elements in the order of the
\* comparison function, which never finds two of them equal.
RECURSIVE qsort(_)
qsort(base) ==
  IF base = << >> THEN << >>
  ELSE LET sorted == qsort(Tail(base))
           x == Head(base)
           before == {k \in 1..Len(sorted) :
                        msOGRUpdateStyleSortFct(sorted[k], x) < 0}
           n == Cardinality(before)
       IN SubSeq(sorted, 1, n) \o <<x>> \o SubSeq(sorted, n + 1, Len(sorted))

\* The locals of msOGRUpdateStyle and the class; budget is the number of
\* styles msGrowClassStyles can still allocate, labelOk tells whether
\* msGrowClassLabels can allocate a label; ret is << >> while the function
\* runs.
StyleStart(c, budget, labelOk, nextId) ==
  [c |-> c, bIsBrush |-> FALSE, pasSortStruct |-> << >>,
   ppsStyleTmp |-> << >>, iBaseStyleIndex |-> Len(c.styles),
   bIsPenBrushOnly |-> FALSE, status |-> MS_SUCCESS, budget |-> budget,
   labelOk |-> labelOk, nextId |-> nextId, ret |-> << >>]

\* Allocates and initializes styles until the class has one at idx.
RECURSIVE msMaybeAllocateClassStyle(_, _)
msMaybeAllocateClassStyle(a, idx) ==
  IF Len(a.c.styles) > idx THEN [a EXCEPT !.status = MS_SUCCESS]
  ELSE IF a.budget = 0 THEN [a EXCEPT !.status = MS_FAILURE]
  ELSE msMaybeAllocateClassStyle(
         [a EXCEPT !.c.styles = Append(@, [id |-> a.nextId, parts |-> << >>]),
                   !.budget = @ - 1, !.nextId = @ + 1], idx)

\* msOGRUpdateStyleParsePen, ParseBrush and ParseSymbol on c->styles[nIndex]
\* for part i.
msOGRUpdateStyleParse(a, nIndex, part, i) ==
  [a EXCEPT !.c.styles[nIndex + 1].parts = Append(@, i),
            !.bIsBrush = IF part.type = "OGRSTCBrush" /\ ~part.invisible
                         THEN TRUE ELSE @]

\* The loop over the parts, from part i.
RECURSIVE msOGRUpdateStyleParts(_, _, _, _)
msOGRUpdateStyleParts(parts, i, a, layerType) ==
  IF i >= Len(parts) THEN a
  ELSE
    LET part == parts[i + 1]
        Memorize(b) ==
          IF ~a.bIsPenBrushOnly
               /\ part.type \in {"OGRSTCPen", "OGRSTCBrush", "OGRSTCSymbol"}
          THEN [b EXCEPT !.pasSortStruct =
                  Append(@, [nPriority |-> IF part.priority = << >>
                                           THEN INT_MIN
                                           ELSE part.priority[1],
                             nApparitionIndex |-> Len(@)])]
          ELSE b
        Parsed(b, nIndex) ==
          IF b.status # MS_SUCCESS THEN [b EXCEPT !.ret = <<MS_FAILURE>>]
          ELSE msOGRUpdateStyleParts(
                 parts, i + 1,
                 Memorize(msOGRUpdateStyleParse(b, nIndex, part, i)),
                 layerType)
        Tool(nIndex) == Parsed(msMaybeAllocateClassStyle(a, nIndex), nIndex)
    IN CASE part.type = "NULL" ->
              msOGRUpdateStyleParts(parts, i + 1, a, layerType)
         [] part.type = "OGRSTCLabel" ->
              IF a.c.numlabels = 0 /\ ~a.labelOk
              THEN [a EXCEPT !.ret = <<MS_FAILURE>>]
              ELSE msOGRUpdateStyleParts(
                     parts, i + 1, [a EXCEPT !.c.numlabels = 1], layerType)
         [] part.type = "OGRSTCPen" ->
              Tool(IF a.bIsPenBrushOnly
                   THEN (IF a.bIsBrush \/ layerType = MS_LAYER_POLYGON
                         THEN 1 ELSE 0)
                   ELSE Len(a.c.styles))
         [] part.type = "OGRSTCBrush" ->
              Tool(IF a.bIsPenBrushOnly THEN 0 ELSE Len(a.c.styles))
         [] part.type = "OGRSTCSymbol" -> Tool(Len(a.c.styles))

msOGRUpdateStyle(parts, layerType, start) ==
  LET Reorder(a) ==
        IF a.ret # << >> THEN a
        ELSE IF Len(a.pasSortStruct) > 1 /\ ~a.bIsPenBrushOnly
        THEN LET sorted == qsort(a.pasSortStruct)
                 n == Len(sorted)
                 base == a.iBaseStyleIndex
                 tmp == SubSeq(a.c.styles, base + 1, base + n)
             IN [a EXCEPT
                   !.c.styles =
                     [k \in 1..Len(a.c.styles) |->
                        IF k > base /\ k <= base + n
                        THEN tmp[sorted[k - base].nApparitionIndex + 1]
                        ELSE a.c.styles[k]],
                   !.pasSortStruct = sorted,
                   !.ppsStyleTmp = tmp,
                   !.ret = <<MS_SUCCESS>>]
        ELSE [a EXCEPT !.ret = <<MS_SUCCESS>>]
  IN Reorder(msOGRUpdateStyleParts(
       parts, 0,
       [start EXCEPT !.bIsPenBrushOnly =
                       msOGRUpdateStyleCheckPenBrushOnly(parts)],
       layerType))

msOGRUpdateStyleFromString(parts, layerType, budget, labelOk) ==
  LET Update(a) ==
        IF a.status # MS_SUCCESS THEN [a EXCEPT !.ret = <<MS_FAILURE>>]
        ELSE msOGRUpdateStyle(
               parts, layerType,
               StyleStart(a.c, a.budget, a.labelOk, a.nextId))
  IN Update(msMaybeAllocateClassStyle(
              StyleStart(resetClassStyle, budget, labelOk, 0), 0))

(***************************************************************************)
(* State of the style decoder: sParts is the style string, sLayerType the  *)
(* type of the layer, sOut what the call left: state is "none" before the  *)
(* call and "returned" after it, a the class and the locals at the return. *)
(***************************************************************************)
VARIABLES sParts, sLayerType, sOut

svars == <<sParts, sLayerType, sOut>>

NoStyle == [state |-> "none", a |-> StyleStart(resetClassStyle, 0, FALSE, 0)]

IdleStyle ==
  /\ sParts = << >>
  /\ sLayerType = MS_LAYER_POINT
  /\ sOut = [NoStyle EXCEPT !.state = "idle"]

(***************************************************************************)
(* State of the threads that call msOGRInitialize and msOGRCleanup: tPc is *)
(* the position of each thread, tHolder the thread that holds the OGR lock *)
(* (0 when it is free), nRegistrations the calls of OGRRegisterAll since   *)
(* the last OGRCleanupAll, nHandlers the error handlers pushed and not     *)
(* popped, nCalls the calls made so far.                                   *)
(***************************************************************************)
MaxThreads == 2
MaxCalls == 4

VARIABLES tPc, tHolder, nRegistrations, nHandlers, nCalls

tvars == <<tPc, tHolder, nRegistrations, nHandlers, nCalls>>

Threads == 1..MaxThreads

IdleThreads ==
  /\ tPc = [t \in Threads |-> "idle"]
  /\ tHolder = 0
  /\ nRegistrations = 0
  /\ nHandlers = 0
  /\ nCalls = 0

(***************************************************************************)
(* State of the caller of msOGRLayerGetAutoStyle: held is a shape the      *)
(* caller kept from an earlier fetch (msInitShape when none), auto what    *)
(* the last call of msOGRLayerGetAutoStyle was given and did: the shape,   *)
(* whether it was the shape the operation just before had returned, the    *)
(* outcome of the class, the status and the feature it took the style of.  *)
(***************************************************************************)
VARIABLES held, auto

avars == <<held, auto>>

NoAuto == [state |-> "none", shape |-> msInitShape, immediate |-> FALSE,
           outcome |-> "ok", status |-> MS_SUCCESS, feature |-> NoFeature]

IdleAuto == held = msInitShape /\ auto = NoAuto

(***************************************************************************)
(* State of the geometry conversion: gGeom, gLayerType, gShape, gStatus    *)
(* and gDone are the input and the result of one call.                     *)
(***************************************************************************)
VARIABLES gGeom, gLayerType, gShape, gStatus, gDone

gvars == <<gGeom, gLayerType, gShape, gStatus, gDone>>

vars == <<gvars, lvars, fvars, svars, tvars, avars>>

\* A layer that was never opened.
IdleLayer ==
  /\ layer = [type |-> MS_LAYER_LINE, tileindex |-> FALSE, sortBy |-> FALSE,
              isSQL |-> FALSE, numitems |-> 0]
  /\ tiles = << >>
  /\ feats = << >>
  /\ layerinfo = << >>
  /\ lockHeld = FALSE
  /\ bOGRDriversRegistered = FALSE
  /\ conns = {}
  /\ trace = NoTrace
  /\ ret = NoRet
  /\ iter = NoIter

\* No geometry under conversion.
IdleGeom ==
  /\ gGeom = NULL
  /\ gLayerType = MS_LAYER_LINE
  /\ gShape = msInitShape
  /\ gStatus = "none"
  /\ gDone = TRUE

InitGeom ==
  /\ gGeom \in Geoms
  /\ gLayerType \in LayerTypes
  /\ gShape = msInitShape
  /\ gStatus = "none"
  /\ gDone = FALSE
  /\ IdleLayer
  /\ IdleFilter
  /\ IdleStyle
  /\ IdleThreads
  /\ IdleAuto

\* One call of ogrConvertGeometry on an initialised shape.
ConvertGeometry ==
  /\ ~gDone
  /\ LET r == ogrConvertGeometry(gGeom, gShape, gLayerType)
     IN /\ gShape' = r.shp
        /\ gStatus' = r.status
  /\ gDone' = TRUE
  /\ UNCHANGED <<gGeom, gLayerType>>
  /\ UNCHANGED <<lvars, fvars, svars, tvars, avars>>

NextGeom == ConvertGeometry

SpecGeom == InitGeom /\ [][NextGeom]_vars

(***************************************************************************)
(* The layer as a state machine: one action per entry point.               *)
(***************************************************************************)
LayerConfigs ==
  {[type |-> MS_LAYER_LINE, tileindex |-> t, sortBy |-> q.sortBy,
    isSQL |-> q.isSQL, numitems |-> 0] :
     t \in BOOLEAN,
     q \in {[isSQL |-> FALSE, sortBy |-> FALSE],
            [isSQL |-> TRUE, sortBy |-> FALSE],
            [isSQL |-> TRUE, sortBy |-> TRUE]}}

\* The layers and data sources of Spec, where every operation is called.
Init ==
  /\ layer \in LayerConfigs
  /\ IF layer.tileindex
     THEN tiles \in SeqUpTo(TileKinds, MaxIndex) /\ feats = << >>
     ELSE tiles = << >> /\ feats \in SeqUpTo(FileFeatures, MaxFileFeats)
  /\ layerinfo = << >>
  /\ lockHeld = FALSE
  /\ bOGRDriversRegistered = FALSE
  /\ conns = {}
  /\ trace = NoTrace
  /\ ret = NoRet
  /\ iter = NoIter
  /\ IdleGeom
  /\ IdleFilter
  /\ IdleStyle
  /\ IdleThreads
  /\ IdleAuto

\* The state of the layer an operation leaves, with what it returned.
LeavesLayer(op, r, it) ==
  /\ layer' = [layer EXCEPT !.numitems = r.st.numitems]
  /\ layerinfo' = r.st.layerinfo
  /\ lockHeld' = r.st.lock
  /\ bOGRDriversRegistered' = r.st.registered
  /\ conns' = r.st.conns
  /\ trace' = r.st.trace
  /\ ret' = IF op \in {"LayerNextShape", "LayerGetShape"}
            THEN [op |-> op, status |-> r.status, shape |-> r.shape]
            ELSE NoRet
  /\ iter' = it
  /\ UNCHANGED <<tiles, feats>>
  /\ UNCHANGED <<gvars, fvars, svars, tvars>>

Leaves(op, r, it) == LeavesLayer(op, r, it) /\ UNCHANGED avars

LayerOpen ==
  \E outcome \in IF layerinfo # << >> THEN {"ok"}
                 ELSE {"ok", "okauto", "missing", "badlayer", "tilesrs",
                       "notileitem", "projfail"} :
    \E r \in {msOGRLayerOpen(Running, outcome)} :
      Leaves("LayerOpen", r, NoIter)

LayerClose ==
  \E r \in {msOGRLayerClose(Running)} :
    Leaves("LayerClose", r, NoIter)

LayerWhichShapes ==
  \E rect \in Rects :
    \E r \in {msOGRLayerWhichShapes(Running, rect)} :
      Leaves("LayerWhichShapes", r,
             IF r.status = MS_SUCCESS
             THEN [state |-> "clean", returned |-> << >>]
             ELSE NoIter)

LayerNextShape ==
  \E r \in {msOGRLayerNextShape(Running, msInitShape)} :
    Leaves("LayerNextShape", r,
           IF iter.state = "none" THEN iter
           ELSE IF r.status = MS_SUCCESS
           THEN [iter EXCEPT !.returned =
                   Append(@, [tileindex |-> r.shape.tileindex,
                              index |-> r.shape.index])]
           ELSE IF r.status = MS_DONE /\ iter.state # "failed"
           THEN [iter EXCEPT !.state = "done"]
           ELSE [iter EXCEPT !.state = "failed"])

LayerGetShape ==
  \E record \in Records :
    \E r \in {msOGRLayerGetShape(Running, msInitShape, record)} :
      Leaves("LayerGetShape", r, NoIter)

\* The caller has set layer->items to one item.  On a tiled layer that is
\* not open the code dereferences the NULL layerinfo and the process ends.
LayerInitItemInfo ==
  /\ ~(layer.tileindex /\ layerinfo = << >>)
  /\ \E r \in {msOGRLayerInitItemInfo([Running EXCEPT !.numitems = 1])} :
       Leaves("LayerInitItemInfo", r, NoIter)

LayerGetItems ==
  \E r \in {msOGRLayerGetItems(Running)} :
    Leaves("LayerGetItems", r, NoIter)

LayerGetExtent ==
  \E ok \in BOOLEAN :
    \E r \in {msOGRLayerGetExtent(Running, ok)} :
      Leaves("LayerGetExtent", r, NoIter)

Next ==
  \/ LayerOpen
  \/ LayerClose
  \/ LayerWhichShapes
  \/ LayerNextShape
  \/ LayerGetShape
  \/ LayerInitItemInfo
  \/ LayerGetItems
  \/ LayerGetExtent

Spec == Init /\ [][Next]_vars

(***************************************************************************)
(* The tiled layer read sequentially, over a longer tile index.            *)
(***************************************************************************)
InitCursor ==
  /\ layer \in {l \in LayerConfigs : l.tileindex}
  /\ tiles \in SeqUpTo(TileKinds, MaxTiles)
  /\ feats = << >>
  /\ layerinfo = << >>
  /\ lockHeld = FALSE
  /\ bOGRDriversRegistered = FALSE
  /\ conns = {}
  /\ trace = NoTrace
  /\ ret = NoRet
  /\ iter = NoIter
  /\ IdleGeom
  /\ IdleFilter
  /\ IdleStyle
  /\ IdleThreads
  /\ IdleAuto

NextCursor ==
  \/ LayerOpen
  \/ LayerClose
  \/ LayerWhichShapes
  \/ LayerNextShape
  \/ LayerInitItemInfo
  \/ LayerGetItems

SpecCursor == InitCursor /\ [][NextCursor]_vars

(***************************************************************************)
(* The filter translator as a state machine: one call on an expression.    *)
(***************************************************************************)
InitFilter ==
  /\ fTokens \in FilterExpressions
  /\ fView \in ViewRects
  /\ fRect = fView
  /\ fNative = OldNativeString
  /\ fOut = NoTranslation
  /\ IdleLayer
  /\ IdleGeom
  /\ IdleStyle
  /\ IdleThreads
  /\ IdleAuto

\* One call of the function.  Where it executes undefined behaviour the
\* process either ends there or goes on; a token read through a NULL node
\* is then a regular-expression operator or another one.
Translate ==
  /\ fOut.state = "none"
  /\ \E wild \in BOOLEAN, survives \in BOOLEAN :
       \E r \in {msOGRTranslateMsExpressionToOGRSQL(fTokens, fNative, fRect,
                                                    wild)} :
         IF r.loop.ub # {} /\ ~survives
         THEN /\ fOut' = [state |-> "crashed", ret |-> << >>, loop |-> r.loop]
              /\ UNCHANGED <<fRect, fNative>>
         ELSE /\ fOut' = [state |-> "returned", ret |-> r.ret,
                          loop |-> r.loop]
              /\ fRect' = r.psRect
              /\ fNative' = r.native_string
  /\ UNCHANGED <<fTokens, fView>>
  /\ UNCHANGED <<gvars, lvars, svars, tvars, avars>>

NextFilter == Translate

SpecFilter == InitFilter /\ [][NextFilter]_vars

(***************************************************************************)
(* The style decoder as a state machine: one call of                       *)
(* msOGRUpdateStyleFromString on a style string.                           *)
(***************************************************************************)
InitStyle ==
  /\ sParts \in StyleStrings
  /\ sLayerType \in {MS_LAYER_LINE, MS_LAYER_POLYGON}
  /\ sOut = NoStyle
  /\ IdleLayer
  /\ IdleGeom
  /\ IdleFilter
  /\ IdleThreads
  /\ IdleAuto

UpdateStyleFromString ==
  /\ sOut.state = "none"
  /\ \E budget \in 0..(MaxParts + 1), labelOk \in BOOLEAN :
       \E a \in {msOGRUpdateStyleFromString(sParts, sLayerType, budget,
                                            labelOk)} :
         sOut' = [state |-> "returned", a |-> a]
  /\ UNCHANGED <<sParts, sLayerType>>
  /\ UNCHANGED <<gvars, lvars, fvars, tvars, avars>>

NextStyle == UpdateStyleFromString

SpecStyle == InitStyle /\ [][NextStyle]_vars

(***************************************************************************)
(* msOGRInitialize and msOGRCleanup called by several threads: one action  *)
(* per step between two points where another thread can run.               *)
(***************************************************************************)
InitThreads ==
  /\ IdleThreads
  /\ IdleAuto
  /\ IdleLayer
  /\ IdleGeom
  /\ IdleFilter
  /\ IdleStyle

\* What the threads leave alone.
NoLayer ==
  UNCHANGED <<layer, tiles, feats, layerinfo, lockHeld, conns, trace, ret,
              iter, gvars, fvars, svars, avars>>

\* msOGRInitialize: the test of the flag, made without the lock.
InitializeTest(t) ==
  /\ tPc[t] = "idle"
  /\ nCalls < MaxCalls
  /\ nCalls' = nCalls + 1
  /\ tPc' = [tPc EXCEPT ![t] = IF ~bOGRDriversRegistered THEN "init_acquire"
                                ELSE "idle"]
  /\ UNCHANGED <<tHolder, nRegistrations, nHandlers, bOGRDriversRegistered>>
  /\ NoLayer

\* ACQUIRE_OGR_LOCK in either function.
AcquireOgrLock(t) ==
  /\ tPc[t] \in {"init_acquire", "cleanup_acquire"}
  /\ tHolder = 0
  /\ tHolder' = t
  /\ tPc' = [tPc EXCEPT ![t] = IF @ = "init_acquire" THEN "init_body"
                                ELSE "cleanup_body"]
  /\ UNCHANGED <<nRegistrations, nHandlers, nCalls, bOGRDriversRegistered>>
  /\ NoLayer

\* msOGRInitialize: OGRRegisterAll, CPLPushErrorHandler and the flag.
InitializeRegister(t) ==
  /\ tPc[t] = "init_body"
  /\ nRegistrations' = nRegistrations + 1
  /\ nHandlers' = nHandlers + 1
  /\ bOGRDriversRegistered' = TRUE
  /\ tPc' = [tPc EXCEPT ![t] = "release"]
  /\ UNCHANGED <<tHolder, nCalls>>
  /\ NoLayer

\* RELEASE_OGR_LOCK in either function, and the return.
ReleaseOgrLock(t) ==
  /\ tPc[t] = "release"
  /\ tHolder' = 0
  /\ tPc' = [tPc EXCEPT ![t] = "idle"]
  /\ UNCHANGED <<nRegistrations, nHandlers, nCalls, bOGRDriversRegistered>>
  /\ NoLayer

\* msOGRCleanup is called.
CleanupCall(t) ==
  /\ tPc[t] = "idle"
  /\ nCalls < MaxCalls
  /\ nCalls' = nCalls + 1
  /\ tPc' = [tPc EXCEPT ![t] = "cleanup_acquire"]
  /\ UNCHANGED <<tHolder, nRegistrations, nHandlers, bOGRDriversRegistered>>
  /\ NoLayer

\* msOGRCleanup: CPLPopErrorHandler, OGRCleanupAll and the flag.
CleanupBody(t) ==
  /\ tPc[t] = "cleanup_body"
  /\ IF bOGRDriversRegistered
     THEN /\ nHandlers' = nHandlers - 1
          /\ nRegistrations' = 0
          /\ bOGRDriversRegistered' = FALSE
     ELSE UNCHANGED <<nHandlers, nRegistrations, bOGRDriversRegistered>>
  /\ tPc' = [tPc EXCEPT ![t] = "release"]
  /\ UNCHANGED <<tHolder, nCalls>>
  /\ NoLayer

NextThreads ==
  \E t \in Threads :
    \/ InitializeTest(t)
    \/ AcquireOgrLock(t)
    \/ InitializeRegister(t)
    \/ ReleaseOgrLock(t)
    \/ CleanupCall(t)
    \/ CleanupBody(t)

SpecThreads == InitThreads /\ [][NextThreads]_vars

(***************************************************************************)
(* The layer with a caller that asks for the style of shapes it fetched.   *)
(***************************************************************************)
InitAuto ==
  /\ layer \in {l \in LayerConfigs : ~l.isSQL}
  /\ IF layer.tileindex
     THEN /\ tiles \in SeqUpTo({k \in TileKinds : k.status # "badfilter"},
                               MaxIndex)
          /\ feats = << >>
     ELSE /\ tiles = << >>
          /\ feats \in SeqUpTo({"point", "line"}, MaxFileFeats)
  /\ layerinfo = << >>
  /\ lockHeld = FALSE
  /\ bOGRDriversRegistered = FALSE
  /\ conns = {}
  /\ trace = NoTrace
  /\ ret = NoRet
  /\ iter = NoIter
  /\ IdleAuto
  /\ IdleGeom
  /\ IdleFilter
  /\ IdleStyle
  /\ IdleThreads

\* The caller keeps the shape the last fetch returned.
HoldShape ==
  /\ ret.op \in {"LayerNextShape", "LayerGetShape"}
  /\ ret.status = MS_SUCCESS
  /\ held' = ret.shape
  /\ UNCHANGED <<auto, lvars, gvars, fvars, svars, tvars>>

\* msOGRLayerGetAutoStyle with the shape just returned or the shape kept.
LayerGetAutoStyle ==
  \E shape \in {s \in {held, ret.shape} : s # msInitShape},
     outcome \in {"ok", "noalloc", "nodecode"} :
    \E r \in {msOGRLayerGetAutoStyle(Running, shape, outcome)} :
      /\ LeavesLayer("LayerGetAutoStyle", [r EXCEPT !.feature = NoFeature],
                     NoIter)
      /\ auto' = [state |-> "returned", shape |-> shape,
                  immediate |-> /\ ret.op \in {"LayerNextShape",
                                                "LayerGetShape"}
                                /\ ret.status = MS_SUCCESS
                                /\ shape = ret.shape,
                  outcome |-> outcome, status |-> r.status,
                  feature |-> r.feature]
      /\ UNCHANGED held

NextAuto ==
  \/ LayerOpen
  \/ LayerNextShape
  \/ LayerGetShape
  \/ HoldShape
  \/ LayerGetAutoStyle

SpecAuto == InitAuto /\ [][NextAuto]_vars

(***************************************************************************)
(* An untiled layer of each type read sequentially, with and without       *)
(* items, over features of every kind.                                     *)
(***************************************************************************)
MaxFetchFeats == 3

InitFetch ==
  /\ layer \in {[type |-> t, tileindex |-> FALSE, sortBy |-> FALSE,
                 isSQL |-> FALSE, numitems |-> 0] :
                  t \in {MS_LAYER_POINT, MS_LAYER_LINE, MS_LAYER_POLYGON}}
  /\ tiles = << >>
  /\ feats \in SeqUpTo(FileFeatures \cup {"polygon"}, MaxFetchFeats)
  /\ layerinfo = << >>
  /\ lockHeld = FALSE
  /\ bOGRDriversRegistered = FALSE
  /\ conns = {}
  /\ trace = NoTrace
  /\ ret = NoRet
  /\ iter = NoIter
  /\ IdleAuto
  /\ IdleGeom
  /\ IdleFilter
  /\ IdleStyle
  /\ IdleThreads

NextFetch ==
  \/ LayerOpen
  \/ LayerInitItemInfo
  \/ LayerNextShape

SpecFetch == InitFetch /\ [][NextFetch]_vars

(***************************************************************************)
(* Properties of the geometry conversion (SpecGeom).                       *)
(***************************************************************************)
StatusOf(rc) == IF rc = -1 THEN MS_FAILURE ELSE MS_SUCCESS

\* The points stored in the rings of a shape.
ShapePoints(shp) == UNION {{shp.line[i][j] : j \in 1..Len(shp.line[i])} :
                             i \in 1..Len(shp.line)}

MinOf(S) == CHOOSE m \in S : \A n \in S : m <= n

MaxOf(S) == CHOOSE m \in S : \A n \in S : m >= n

\* The geometry with its members reordered by the permutation f.
Reordered(g, f) == [g EXCEPT !.members = [i \in 1..Len(g.members) |->
                                            g.members[f[i]]]]

Orderings(g) == {Reordered(g, f) : f \in Permutations(1..Len(g.members))}

\* The geometry without its point and multipoint members.
WithoutPoints(g) ==
  [g EXCEPT !.members = SelectSeq(g.members,
                          LAMBDA m : m.t \notin {wkbPoint, wkbMultiPoint})]

\* C1: ogrConvertGeometry applies the layer-type policy to every non-null
\* geometry: point extraction for a point layer; line extraction without
\* closure for a line layer, the type forced to Null unless Line or Polygon;
\* line extraction with closure for a polygon layer, the type forced to Null
\* unless Polygon; for a query or chart layer point extraction of a point
\* or multipoint and line extraction without closure of anything else.  A
\* point given to a polygon layer yields MS_SUCCESS and the type Null.
C1_LayerTypePolicy ==
  (gDone /\ gGeom # NULL) =>
    /\ gLayerType = MS_LAYER_POINT =>
         LET r == ogrGeomPoints(gGeom, msInitShape)
         IN gShape = r.shp /\ gStatus = StatusOf(r.rc)
    /\ gLayerType = MS_LAYER_LINE =>
         LET r == ogrGeomLine(gGeom, msInitShape, FALSE)
         IN /\ gStatus = StatusOf(r.rc)
            /\ gShape.line = r.shp.line
            /\ gShape.bounds = r.shp.bounds
            /\ gShape.type = IF r.shp.type \in {MS_SHAPE_LINE, MS_SHAPE_POLYGON}
                             THEN r.shp.type ELSE MS_SHAPE_NULL
    /\ gLayerType = MS_LAYER_POLYGON =>
         LET r == ogrGeomLine(gGeom, msInitShape, TRUE)
         IN /\ gStatus = StatusOf(r.rc)
            /\ gShape.line = r.shp.line
            /\ gShape.bounds = r.shp.bounds
            /\ gShape.type = IF r.shp.type = MS_SHAPE_POLYGON
                             THEN MS_SHAPE_POLYGON ELSE MS_SHAPE_NULL
    /\ gLayerType \in {MS_LAYER_QUERY, MS_LAYER_CHART} =>
         LET r == IF gGeom.t \in {wkbPoint, wkbMultiPoint}
                  THEN ogrGeomPoints(gGeom, msInitShape)
                  ELSE ogrGeomLine(gGeom, msInitShape, FALSE)
         IN gShape = r.shp /\ gStatus = StatusOf(r.rc)
    /\ (gGeom.t = wkbPoint /\ gLayerType = MS_LAYER_POLYGON) =>
         gStatus = MS_SUCCESS /\ gShape.type = MS_SHAPE_NULL

\* A point has been converted for a polygon layer.
C1_Witness ==
  /\ gDone /\ gGeom.t = wkbPoint /\ gLayerType = MS_LAYER_POLYGON
  /\ gStatus = MS_SUCCESS /\ gShape.type = MS_SHAPE_NULL

\* C7: after a conversion into an empty shape the bounds are the per-axis
\* minimum and maximum of the points stored in the rings, and a successful
\* conversion leaves the same rectangle for every ordering of the members.
C7_BoundsAreMinMax ==
  (gDone /\ gLayerType # MS_LAYER_RASTER) =>
    /\ ShapePoints(gShape) # {} =>
         LET xs == {p[1] : p \in ShapePoints(gShape)}
             ys == {p[2] : p \in ShapePoints(gShape)}
         IN gShape.bounds = [minx |-> MinOf(xs), maxx |-> MaxOf(xs),
                             miny |-> MinOf(ys), maxy |-> MaxOf(ys)]
    /\ ShapePoints(gShape) = {} => gShape.bounds = msInitShape.bounds
    /\ gStatus = MS_SUCCESS =>
         \A g \in Orderings(gGeom) :
           LET r == ogrConvertGeometry(g, msInitShape, gLayerType)
           IN r.status = MS_SUCCESS /\ r.shp.bounds = gShape.bounds

\* A container of two members whose first member does not hold the extreme
\* points has been converted.
C7_Witness ==
  /\ gDone /\ gStatus = MS_SUCCESS /\ Len(gGeom.members) = 2
  /\ Len(gShape.line) >= 1
  /\ gShape.bounds.maxy > gShape.line[1][1][2]
  /\ gShape.bounds.minx < gShape.line[1][1][1]

\* The rings expected of a linestring of at least two points.
ClosedRing(pts) == IF pts[Len(pts)] = pts[1] THEN pts ELSE Append(pts, pts[1])

\* C8 as stated: in polygon mode a linestring whose last point equals its
\* first gives a ring of exactly the input points and any other linestring a
\* ring with exactly one more point, equal to the first; without closure the
\* ring always has exactly the input points.
C8_AsStated ==
  (gDone /\ gGeom.t = wkbLineString /\ Len(gGeom.pts) >= 1
         /\ gLayerType \in {MS_LAYER_LINE, MS_LAYER_POLYGON, MS_LAYER_QUERY,
                            MS_LAYER_CHART}) =>
    LET pts == gGeom.pts
        n == Len(pts)
    IN /\ Len(gShape.line) = 1
       /\ gLayerType # MS_LAYER_POLYGON => gShape.line[1] = pts
       /\ gLayerType = MS_LAYER_POLYGON =>
            LET ring == gShape.line[1]
            IN /\ pts[n] = pts[1] => ring = pts
               /\ pts[n] # pts[1] =>
                    /\ Len(ring) = n + 1
                    /\ ring[n + 1] = pts[1]
                    /\ SubSeq(ring, 1, n) = pts

\* C8: ring closure is idempotent.  A linestring of at least two points
\* gives one ring: in polygon mode a ring of exactly the input points if its
\* last point equals its first, and otherwise a ring with exactly one more
\* point, equal to the first, and closing the ring again changes nothing;
\* without closure a ring of exactly the input points.  A linestring of fewer
\* than two points gives no ring and no error.
C8_RingClosure ==
  (gDone /\ gGeom.t = wkbLineString
         /\ gLayerType \in {MS_LAYER_LINE, MS_LAYER_POLYGON, MS_LAYER_QUERY,
                            MS_LAYER_CHART}) =>
    LET pts == gGeom.pts
        n == Len(pts)
    IN /\ n < 2 => gShape.line = << >> /\ gStatus = MS_SUCCESS
       /\ n >= 2 =>
            /\ Len(gShape.line) = 1
            /\ gLayerType # MS_LAYER_POLYGON => gShape.line[1] = pts
            /\ gLayerType = MS_LAYER_POLYGON =>
                 LET ring == gShape.line[1]
                 IN /\ pts[n] = pts[1] => ring = pts
                    /\ pts[n] # pts[1] =>
                         /\ Len(ring) = n + 1
                         /\ ring[n + 1] = pts[1]
                         /\ SubSeq(ring, 1, n) = pts
                    /\ ring = ClosedRing(pts)
                    /\ ogrGeomLine(Geom(wkbLineString, FALSE, ring, << >>),
                                   msInitShape, TRUE).shp.line = <<ring>>

\* An open linestring has been closed and a closed one left alone.
C8_Witness ==
  /\ gDone /\ gGeom.t = wkbLineString /\ gLayerType = MS_LAYER_POLYGON
  /\ Len(gGeom.pts) = 3 /\ gGeom.pts[3] # gGeom.pts[1]
  /\ Len(gShape.line) = 1 /\ Len(gShape.line[1]) = 4

\* A geometry collection of exactly one point and one linestring.
IsPointAndLine(g) ==
  /\ g.t = wkbGeometryCollection /\ Len(g.members) = 2
  /\ {g.members[1].t, g.members[2].t} = {wkbPoint, wkbLineString}

TheLine(g) == IF g.members[1].t = wkbLineString THEN g.members[1]
              ELSE g.members[2]

\* C9 as stated: a collection of one point and one linestring, in either
\* order, converted for a line layer yields MS_SUCCESS and a Line shape with
\* exactly one ring holding exactly the points of the linestring.
C9_AsStated ==
  (gDone /\ IsPointAndLine(gGeom) /\ gLayerType = MS_LAYER_LINE) =>
    /\ gStatus = MS_SUCCESS
    /\ gShape.type = MS_SHAPE_LINE
    /\ gShape.line = <<TheLine(gGeom).pts>>

\* C9: in line extraction the point and multipoint members of a container
\* are dropped without error and without affecting the shape: the result is
\* that of the container without them.  A collection of one point and one
\* linestring of at least two points, in either order, converted for a line
\* layer yields MS_SUCCESS and a Line shape with exactly one ring holding
\* exactly the points of the linestring; a linestring of fewer than two
\* points is dropped as well and leaves a Null shape without rings.
C9_PointMembersDropped ==
  /\ (gDone /\ gGeom.t \in ContainerTypes
            /\ gLayerType \in {MS_LAYER_LINE, MS_LAYER_POLYGON, MS_LAYER_QUERY,
                               MS_LAYER_CHART}) =>
       LET r == ogrConvertGeometry(WithoutPoints(gGeom), msInitShape,
                                   gLayerType)
       IN gShape = r.shp /\ gStatus = r.status
  /\ (gDone /\ IsPointAndLine(gGeom) /\ gLayerType = MS_LAYER_LINE) =>
       /\ gStatus = MS_SUCCESS
       /\ Len(TheLine(gGeom).pts) >= 2 =>
            /\ gShape.type = MS_SHAPE_LINE
            /\ gShape.line = <<TheLine(gGeom).pts>>
       /\ Len(TheLine(gGeom).pts) < 2 =>
            /\ gShape.type = MS_SHAPE_NULL
            /\ gShape.line = << >>

\* A collection of a point followed by a linestring has been converted for
\* a line layer.
C9_Witness ==
  /\ gDone /\ IsPointAndLine(gGeom) /\ gLayerType = MS_LAYER_LINE
  /\ gGeom.members[1].t = wkbPoint
  /\ gShape.type = MS_SHAPE_LINE /\ Len(gShape.line) = 1

(***************************************************************************)
(* Properties of the tiled cursor (SpecCursor).                            *)
(***************************************************************************)
\* The feature converts to a shape of the layer's type.
Compatible(hFeature) ==
  LET r == ogrConvertGeometry(OGR_F_GetGeometryRef(hFeature), msInitShape,
                              layer.type)
  IN r.status = MS_SUCCESS /\ r.shp.type # MS_SHAPE_NULL

\* The sub-dataset of index record i can be opened.
Openable(i) == tiles[i].status # "missing"

\* The compatible features of tile i from position k on, as returned.
RECURSIVE ExpectedOfTile(_, _)
ExpectedOfTile(i, k) ==
  IF k > Len(tiles[i].feats) THEN << >>
  ELSE (IF Compatible(tiles[i].feats[k])
        THEN <<[tileindex |-> FidOf(i), index |-> FidOf(k)]>> ELSE << >>)
       \o ExpectedOfTile(i, k + 1)

\* The compatible features of the openable tiles from record i on.
RECURSIVE ExpectedFrom(_)
ExpectedFrom(i) ==
  IF i > Len(tiles) THEN << >>
  ELSE (IF Openable(i) THEN ExpectedOfTile(i, 1) ELSE << >>)
       \o ExpectedFrom(i + 1)

IsPrefix(a, b) == Len(a) <= Len(b) /\ SubSeq(b, 1, Len(a)) = a

RECURSIVE FirstOpenable(_)
FirstOpenable(from) ==
  IF from >= Len(tiles) THEN 0
  ELSE IF Openable(from + 1) THEN from + 1
  ELSE FirstOpenable(from + 1)

\* C3: a sequential advance (msOGRFileReadTile with target -1) skips the
\* index records whose sub-dataset cannot be opened: it activates the first
\* openable record after the cursor, reports done exactly if there is none,
\* and fails only on an openable record, never on an unopenable one.
C3_SkipUnopenable ==
  \A k \in 1..Len(trace.readTile) :
    LET c == trace.readTile[k]
        i == FirstOpenable(c.from)
    IN c.target = -1 =>
         /\ c.status \in {MS_SUCCESS, MS_DONE, MS_FAILURE}
         /\ c.status = MS_DONE <=> i = 0
         /\ c.status = MS_SUCCESS => c.tile = FidOf(i)
         /\ c.status = MS_FAILURE => tiles[i].status = "badfilter"

\* Over an index of three records of which only the second cannot be
\* opened, the iteration returned shapes of the first and of the third tile
\* and ended with an advance that reported done.
C3_Witness ==
  /\ Len(tiles) = 3
  /\ ~Openable(2) /\ tiles[1].status = "ok" /\ tiles[3].status = "ok"
  /\ iter.state = "done"
  /\ {iter.returned[k].tileindex : k \in 1..Len(iter.returned)} = {0, 2}
  /\ trace.readTile # << >>
  /\ trace.readTile[Len(trace.readTile)].status = MS_DONE

\* C4: a call of msOGRFileReadTile with target -1 or -2 that finds the tile
\* index exhausted returns MS_DONE.
C4_ExhaustionIsDone ==
  \A k \in 1..Len(trace.readTile) :
    LET c == trace.readTile[k]
    IN c.exhausted /\ c.target \in {-1, -2} => c.status = MS_DONE

\* C18: once WhichShapes has set a view rectangle on the tile index, the
\* tile that msOGRFileReadTile makes current has that rectangle as its
\* spatial filter (its rect is the rect of the index), whatever the
\* rectangle.
C18_TileRectIsParentRect ==
  /\ layer.tileindex
  /\ iter.state # "none"
  /\ layerinfo # << >>
  /\ layerinfo[1].poCurTile # << >>
  => layerinfo[1].poCurTile[1].rect = layerinfo[1].rect

(***************************************************************************)
(* Properties of the layer operations (Spec).                              *)
(***************************************************************************)
\* C5: no operation calls the OGR back end without holding the OGR lock.
C5_BackEndCallsHoldLock == trace.unlocked = {}

\* C6: no operation calls msConnPoolRelease, or acquires the OGR lock, while
\* it holds the OGR lock.
C6_NoPoolReleaseUnderLock == ~trace.poolHeld /\ ~trace.deadlock

\* A tiled layer was closed: msOGRFileClose released the connection of the
\* tile index and then, recursively, the one of the current tile.
C6_Witness ==
  /\ layer.tileindex
  /\ layerinfo = << >>
  /\ trace.poolSites = <<"msOGRFileClose", "msOGRFileClose">>
  /\ conns = {}

\* The feature converts to a shape of type Null: its geometry is null or
\* incompatible with the layer type.
ConvertsToNull(hFeature) ==
  LET r == ogrConvertGeometry(OGR_F_GetGeometryRef(hFeature), msInitShape,
                              layer.type)
  IN r.status = MS_SUCCESS /\ r.shp.type = MS_SHAPE_NULL

\* The conversion of the feature's geometry fails.
ConversionFails(hFeature) ==
  ogrConvertGeometry(OGR_F_GetGeometryRef(hFeature), msInitShape,
                     layer.type).status # MS_SUCCESS

GetShapeOf(record) ==
  \E r \in {msOGRLayerGetShape(Running, msInitShape, record)} :
    Leaves("LayerGetShape", r, NoIter)

\* The index has a record with feature id t whose tile can be opened.
TileReadable(t) ==
  /\ t + 1 \in 1..Len(tiles)
  /\ tiles[t + 1].status # "missing"

\* C19: msOGRLayerGetShape on an open tiled layer, for a record of tile t:
\* when the current tile has id t it is neither closed nor reopened and the
\* index is not read; otherwise the index is read once, for the record with
\* feature id t; after a successful call the current tile has id t and so
\* has the shape; when tile t cannot be read or opened the call fails.
C19_TileRandomAccess ==
  [][\A record \in Records :
       layer.tileindex /\ layerinfo # << >> /\ GetShapeOf(record) =>
         LET t == record.tileindex
             cur == layerinfo[1].poCurTile
             same == cur # << >> /\ cur[1].nTileId = t
         IN /\ same => /\ trace'.readTile = << >>
                       /\ trace'.poolSites = << >>
                       /\ conns' = conns
                       /\ layerinfo'[1].poCurTile # << >>
            /\ ~same => /\ Len(trace'.readTile) = 1
                        /\ trace'.readTile[1].target = t
                        /\ trace'.readTile[1].status = MS_SUCCESS =>
                              trace'.readTile[1].tile = t
            /\ ret'.status = MS_SUCCESS =>
                 /\ layerinfo'[1].poCurTile # << >>
                 /\ layerinfo'[1].poCurTile[1].nTileId = t
                 /\ ret'.shape.tileindex = t
            /\ ~same /\ ~TileReadable(t) => ret'.status = MS_FAILURE]_vars

\* A shape was fetched from the tile that was current already, and one
\* from a tile that the call made current.
C19_Witness ==
  /\ layer.tileindex
  /\ ret.op = "LayerGetShape" /\ ret.status = MS_SUCCESS
  /\ trace.readTile = << >>
  /\ ret.shape.tileindex = 1
  /\ layerinfo[1].poCurTile[1].nTileId = 1

(***************************************************************************)
(* Properties of the filter translator (SpecFilter).                       *)
(***************************************************************************)
\* The 8-token sequence intersects ( [shape] , literal ) = true starts at
\* position i of the expression.
ValidIntersectsAt(tokens, i) ==
  /\ i + 7 <= Len(tokens)
  /\ [k \in 1..8 |-> tokens[i + k - 1].token] =
       <<"MS_TOKEN_COMPARISON_INTERSECTS", "(", "MS_TOKEN_BINDING_SHAPE", ",",
         "MS_TOKEN_LITERAL_SHAPE", ")", "MS_TOKEN_COMPARISON_EQ",
         "MS_TOKEN_LITERAL_BOOLEAN">>
  /\ tokens[i + 7].dblval = MS_TRUE

\* The literal shape of the intersects sequence that starts at position i.
LiteralAt(tokens, i) == tokens[i + 4].shpval

\* The set intersection of two rectangles.
RectIntersection(a, b) ==
  [minx |-> MaxOf({a.minx, b.minx}), miny |-> MaxOf({a.miny, b.miny}),
   maxx |-> MinOf({a.maxx, b.maxx}), maxy |-> MinOf({a.maxy, b.maxy})]

\* The points of the grid in a rectangle.
RectPoints(r) ==
  {p \in (-1..5) \X (-1..5) :
     r.minx <= p[1] /\ p[1] <= r.maxx /\ r.miny <= p[2] /\ p[2] <= r.maxy}

\* A ring of 5 points that is closed and runs along the axes, from either
\* of its first edges.
IsClosedRectangle(shape) ==
  /\ shape.type = MS_SHAPE_POLYGON
  /\ Len(shape.line) = 1
  /\ Len(shape.line[1]) = 5
  /\ LET p == shape.line[1]
     IN /\ p[1] = p[5]
        /\ \/ /\ p[1][1] = p[2][1] /\ p[2][2] = p[3][2]
              /\ p[3][1] = p[4][1] /\ p[4][2] = p[1][2]
           \/ /\ p[1][2] = p[2][2] /\ p[2][1] = p[3][1]
              /\ p[3][2] = p[4][2] /\ p[4][1] = p[1][1]

\* The token at position i added a snippet to the output.
Emitted(i) ==
  \E k \in 1..Len(fOut.loop.snippets) : fOut.loop.snippets[k].pos = i

\* The loop recognised the intersects sequence at position i.
Recognized(i) ==
  \E k \in 1..Len(fOut.loop.recognized) : fOut.loop.recognized[k] = i

\* The function returned from the end of the loop, not through cleanup.
Translated == fOut.state = "returned" /\ ~fOut.loop.cleanup

\* The bounds of the last literal shape the loop recognised.
LastBBox ==
  LiteralAt(fTokens, fOut.loop.recognized[Len(fOut.loop.recognized)]).bounds

\* Scenario A: a rectangle predicate and a string equality, ANDed in
\* either order.
ScenarioA ==
  UNION {{IntersectsSeq(s, MS_TRUE) \o <<Token("MS_TOKEN_LOGICAL_AND")>>
            \o StringEquality,
          StringEquality \o <<Token("MS_TOKEN_LOGICAL_AND")>>
            \o IntersectsSeq(s, MS_TRUE)} : s \in {RectShape, RowRectShape}}

\* The native text of the string equality alone.
AttributeComparison ==
  msOGRTranslateMsExpressionToOGRSQL(StringEquality, << >>, ZeroRect,
                                     FALSE).ret

\* C11: for an intersects predicate on a 5-point closed rectangle ANDed
\* with a string equality, in either order, the function returns the text
\* of the attribute comparison alone, stores it in
\* layer->filter.native_string, and leaves in the view rectangle the
\* intersection of the literal's bounds and the rectangle passed in.
C11_ScenarioA ==
  fOut.state = "returned" /\ fTokens \in ScenarioA =>
    /\ fOut.ret = AttributeComparison
    /\ fNative = fOut.ret
    /\ \E i \in 1..Len(fTokens) :
         /\ ValidIntersectsAt(fTokens, i)
         /\ fRect = RectIntersection(LiteralAt(fTokens, i).bounds, fView)

\* The loop came to the token at position i: it dispatched on it, or it
\* stepped over it after the intersects sequence before it.
Reached(i) == i \in fOut.loop.visited \/ (i > 8 /\ Recognized(i - 8))

\* C12: a logical AND directly before an intersects sequence is consumed
\* without being emitted, the sequence after it is recognised as the
\* spatial predicate, none of its 8 tokens is emitted, and its rectangle
\* refines the view rectangle.
C12_AndBeforeIntersects ==
  fOut.state = "returned" =>
    \A i \in 1..Len(fTokens) :
      /\ fTokens[i].token = "MS_TOKEN_LOGICAL_AND"
      /\ Reached(i)
      /\ ValidIntersectsAt(fTokens, i + 1)
      => /\ ~Emitted(i)
         /\ Recognized(i + 1)
         /\ \A k \in (i + 1)..(i + 8) : ~Emitted(k)
         /\ fOut.loop.sBBOXValid

\* C13: when a spatial predicate was recognised, the rectangle left in
\* psRect is the intersection of the rectangle passed in and the bounds of
\* the literal shape: the larger of the lower bounds and the smaller of the
\* upper bounds on both axes.
C13_RectIsIntersection ==
  Translated /\ fOut.loop.recognized # << >> =>
    fRect = RectIntersection(fView, LastBBox)

HandledTokens ==
  {"MS_TOKEN_LITERAL_NUMBER", "MS_TOKEN_LITERAL_STRING", "MS_TOKEN_BINDING_DOUBLE",
   "MS_TOKEN_BINDING_INTEGER", "MS_TOKEN_BINDING_STRING",
   "MS_TOKEN_COMPARISON_INTERSECTS"} \cup CopiedTokens

\* The token at position i is one of the 7 that follow the intersects token
\* of a valid sequence.
InsideIntersects(tokens, i) ==
  \E j \in 1..Len(tokens) :
    j < i /\ i <= j + 7 /\ ValidIntersectsAt(tokens, j)

\* The expression has a token the translator does not recognise, or an
\* intersects token that the expected sequence does not follow.
NotTranslatable(tokens) ==
  \E i \in 1..Len(tokens) :
    \/ tokens[i].token \notin HandledTokens /\ ~InsideIntersects(tokens, i)
    \/ /\ tokens[i].token = "MS_TOKEN_COMPARISON_INTERSECTS"
       /\ ~ValidIntersectsAt(tokens, i)

\* C15: for an expression with an unrecognised token, or with an intersects
\* token not followed by the expected sequence, the function returns NULL
\* and leaves layer->filter.native_string and the view rectangle as they
\* were.
C15_AbandonedEntirely ==
  fOut.state = "returned" /\ NotTranslatable(fTokens) =>
    /\ fOut.ret = << >>
    /\ fNative = OldNativeString
    /\ fRect = fView

\* C16: when a recognised intersects predicate has a literal that is not a
\* 5-point closed rectangle, layer->filter.native_string is not set and the
\* view rectangle is refined to within that literal's bounds.
C16_PartialTranslation ==
  Translated =>
    \A k \in 1..Len(fOut.loop.recognized) :
      LET shape == LiteralAt(fTokens, fOut.loop.recognized[k])
      IN ~IsClosedRectangle(shape) =>
           /\ fNative = OldNativeString
           /\ RectPoints(fRect) \subseteq RectPoints(shape.bounds)

BindingTokens ==
  {"MS_TOKEN_BINDING_DOUBLE", "MS_TOKEN_BINDING_INTEGER", "MS_TOKEN_BINDING_STRING"}

\* The positions of the field bindings the loop rendered.
RenderedBindings ==
  {i \in fOut.loop.visited : fTokens[i].token \in BindingTokens}

\* The snippet the token at position i added.
SnippetOf(i) ==
  LET k == CHOOSE k \in 1..Len(fOut.loop.snippets) :
             fOut.loop.snippets[k].pos = i
  IN fOut.loop.snippets[k].text

FollowedByRE(i) ==
  /\ i < Len(fTokens)
  /\ fTokens[i + 1].token \in {"MS_TOKEN_COMPARISON_RE", "MS_TOKEN_COMPARISON_IRE"}

\* The escaped identifier of the binding at position i, bare and cast.
BareIdentifier(i) == msOGREscapePropertyName(fTokens[i].bindval)[1]

CastIdentifier(i) == <<"CAST(">> \o BareIdentifier(i) \o <<" AS CHARACTER)">>

GeneralMode ==
  /\ sOut.state = "returned"
  /\ sOut.a.ret = <<MS_SUCCESS>>
  /\ ~sOut.a.bIsPenBrushOnly

\* The slots after those the class had when msOGRUpdateStyle began.
AppendedSlots ==
  SubSeq(sOut.a.c.styles, sOut.a.iBaseStyleIndex + 1, Len(sOut.a.c.styles))

\* The indexes of the Pen, Brush and Symbol parts of the style string.
ToolParts ==
  {i \in 0..(Len(sParts) - 1) :
     sParts[i + 1].type \in {"OGRSTCPen", "OGRSTCBrush", "OGRSTCSymbol"}}

\* The part a slot was made of, and its explicit priority.
Discovery(s) == s.parts[1]

ExplicitPriority(s) == sParts[Discovery(s) + 1].priority

\* C20: after a successful call in general mode the appended slots are in
\* ascending explicit priority, slots of equal priority and slots without
\* priority are in discovery order, and the slots are those that were
\* created, one for each Pen, Brush and Symbol part, each once.
C20_StyleOrder ==
  GeneralMode =>
    LET s == AppendedSlots
    IN /\ \A j \in 1..Len(s) : Len(s[j].parts) = 1
       /\ \A j, k \in 1..Len(s) :
            j < k =>
              LET pj == ExplicitPriority(s[j])
                  pk == ExplicitPriority(s[k])
              IN /\ pj = << >> /\ pk = << >> =>
                      Discovery(s[j]) < Discovery(s[k])
                 /\ pj # << >> /\ pk # << >> =>
                      \/ pj[1] < pk[1]
                      \/ pj[1] = pk[1] /\ Discovery(s[j]) < Discovery(s[k])
       /\ Len(s) = Cardinality(ToolParts)
       /\ {Discovery(s[j]) : j \in 1..Len(s)} = ToolParts
       /\ {s[j].id : j \in 1..Len(s)} = 1..Len(s)

\* Three slots were appended: one of priority 1 made of a part discovered
\* after the part of a slot of priority 5, and two of equal priority.
C20_Witness ==
  /\ GeneralMode
  /\ Len(AppendedSlots) = 3
  /\ \E j, k \in 1..3 :
       /\ j < k
       /\ Discovery(AppendedSlots[j]) > Discovery(AppendedSlots[k])
       /\ ExplicitPriority(AppendedSlots[j]) = <<1>>
       /\ ExplicitPriority(AppendedSlots[k]) = <<5>>
  /\ \E j, k \in 1..3 :
       /\ j < k
       /\ ExplicitPriority(AppendedSlots[j]) = ExplicitPriority(AppendedSlots[k])

\* msOGRUpdateStyle was called: the caller had its first style.
Decoded == sOut.state = "returned" /\ sOut.a.c.styles # << >>

\* The indexes of the parts of one type.
PartsOfType(t) == {i \in 0..(Len(sParts) - 1) : sParts[i + 1].type = t}

\* C21: the two-slot mode is selected exactly when the parts have one Pen
\* and one Brush, both without explicit priority, and no Symbol; labels do
\* not matter.
C21_LegacyModeExact ==
  Decoded =>
    (sOut.a.bIsPenBrushOnly <=>
       /\ Cardinality(PartsOfType("OGRSTCPen")) = 1
       /\ Cardinality(PartsOfType("OGRSTCBrush")) = 1
       /\ PartsOfType("OGRSTCSymbol") = {}
       /\ \A i \in PartsOfType("OGRSTCPen") \cup PartsOfType("OGRSTCBrush") :
            sParts[i + 1].priority = << >>)

\* The two-slot mode was selected for a style string with a label.
C21_Witness ==
  /\ Decoded
  /\ sOut.a.bIsPenBrushOnly
  /\ PartsOfType("OGRSTCLabel") # {}

\* C22: after a successful call in the two-slot mode slot 0 holds the
\* style made of the brush and slot 1 the style made of the pen.
C22_LegacySlots ==
  /\ Decoded
  /\ sOut.a.ret = <<MS_SUCCESS>>
  /\ sOut.a.bIsPenBrushOnly
  => /\ Len(sOut.a.c.styles) = 2
     /\ \E b \in PartsOfType("OGRSTCBrush") : sOut.a.c.styles[1].parts = <<b>>
     /\ \E p \in PartsOfType("OGRSTCPen") : sOut.a.c.styles[2].parts = <<p>>

\* C23: a style string with one Brush of priority 3, one Symbol of priority
\* 1 and no Pen, in either order, leaves the class with exactly two styles,
\* the Symbol's and then the Brush's.
C23_ScenarioD ==
  /\ Decoded
  /\ sOut.a.ret = <<MS_SUCCESS>>
  /\ PartsOfType("OGRSTCPen") = {}
  /\ \E b \in PartsOfType("OGRSTCBrush") :
       PartsOfType("OGRSTCBrush") = {b} /\ sParts[b + 1].priority = <<3>>
  /\ \E s \in PartsOfType("OGRSTCSymbol") :
       PartsOfType("OGRSTCSymbol") = {s} /\ sParts[s + 1].priority = <<1>>
  => /\ Len(sOut.a.c.styles) = 2
     /\ sOut.a.c.styles[1].parts \in {<<s>> : s \in PartsOfType("OGRSTCSymbol")}
     /\ sOut.a.c.styles[2].parts \in {<<b>> : b \in PartsOfType("OGRSTCBrush")}

(***************************************************************************)
(* Properties of driver registration (SpecThreads).                        *)
(***************************************************************************)
\* C24: between two teardowns the drivers are registered at most once and
\* at most one error handler is pushed, whatever the number of threads in
\* msOGRInitialize; once every call has returned the handlers pushed and
\* not popped are one if the drivers are registered and none otherwise.
C24_RegisteredOnce ==
  /\ nRegistrations <= 1
  /\ nHandlers <= 1
  /\ (\A t \in Threads : tPc[t] = "idle") =>
       nHandlers = IF bOGRDriversRegistered THEN 1 ELSE 0

(***************************************************************************)
(* Properties of msOGRLayerGetAutoStyle (SpecAuto).                        *)
(***************************************************************************)
\* The feature a shape was built from.
FeatureOf(shape) ==
  [ds |-> IF layer.tileindex THEN shape.tileindex + 1 ELSE 0,
   fid |-> shape.index]

\* C25: msOGRLayerGetAutoStyle called with the shape that the operation
\* just before, a successful NextShape or GetShape, returned succeeds (when
\* the class can be allocated and the style decoded) and takes the style
\* of the feature the shape was built from; and whenever it succeeds it
\* took the style of the feature the shape it was given was built from.
C25_StyleOfLastFeature ==
  auto.state = "returned" =>
    /\ auto.immediate /\ auto.outcome = "ok" => auto.status = MS_SUCCESS
    /\ auto.status = MS_SUCCESS => auto.feature = FeatureOf(auto.shape)

(***************************************************************************)
(* Properties of the sequential fetch (SpecFetch).                         *)
(***************************************************************************)
\* The shape types a layer type accepts.
TypesOfLayer ==
  CASE layer.type = MS_LAYER_POLYGON -> {MS_SHAPE_POLYGON}
    [] layer.type = MS_LAYER_LINE -> {MS_SHAPE_LINE, MS_SHAPE_POLYGON}
    [] layer.type = MS_LAYER_POINT -> {MS_SHAPE_POINT}

\* C26: a shape that msOGRFileNextShape returns with MS_SUCCESS has a type
\* the layer type accepts, and its rings, bounds and values are those of the
\* feature with its index, converted alone into an empty shape: the features
\* rejected before it in the same call left nothing in it.
C26_ShapeOfOneFeature ==
  ret.op = "LayerNextShape" /\ ret.status = MS_SUCCESS =>
    LET hFeature == [ds |-> 0, fid |-> ret.shape.index]
        alone == ogrConvertGeometry(
                   OGR_F_GetGeometryRef(feats[ret.shape.index + 1]),
                   msInitShape, layer.type)
    IN /\ ret.shape.type \in TypesOfLayer
       /\ ret.shape.type = alone.shp.type
       /\ ret.shape.line = alone.shp.line
       /\ ret.shape.bounds = alone.shp.bounds
       /\ ret.shape.values = IF layer.numitems > 0
                             THEN msOGRGetValues(hFeature) ELSE << >>

\* A polygon layer with items returned its second feature, a polygon, after
\* it rejected a linestring, whose ring the conversion had stored.
C26_Witness ==
  /\ ret.op = "LayerNextShape" /\ ret.status = MS_SUCCESS
  /\ layer.type = MS_LAYER_POLYGON
  /\ layer.numitems > 0
  /\ ret.shape.index = 1
  /\ feats[1] = "line"
  /\ ogrConvertGeometry(OGR_F_GetGeometryRef("line"), msInitShape,
                        MS_LAYER_POLYGON).shp.line # << >>

\* C27: the OGR lock is balanced on every path of every operation: no
\* operation releases the lock while it is not held, none acquires it while
\* it is held, and every operation returns with the lock not held,
\* msOGRFileReadTile included when it skips tiles that do not open.
C27_LockBalanced ==
  /\ ~lockHeld
  /\ ~trace.badRelease
  /\ ~trace.deadlock

\* C28: at most one tile is open and no opened tile is leaked: after every
\* operation the only tile data set that is open is the active tile
\* (poCurTile) of the open layer; a tile that msOGRFileReadTile opened and
\* did not install, or the previously active tile, is closed.
C28_OneTileNoLeak ==
  conns \ {0} \subseteq
    (IF layerinfo # << >> /\ layerinfo[1].poCurTile # << >>
     THEN {layerinfo[1].poCurTile[1].ds} ELSE {})

\* The files of the open layer: the layer's own file and its active tile.
OpenFiles ==
  IF layerinfo = << >> THEN {}
  ELSE {layerinfo[1]} \cup (IF layerinfo[1].poCurTile = << >> THEN {}
                            ELSE {layerinfo[1].poCurTile[1]})

\* In every open file last_record_index_read is -1 or the zero-based cursor
\* position of the feature fetched last.
IndexIsCursor ==
  \A f \in OpenFiles :
    /\ f.last_record_index_read >= -1
    /\ f.last_record_index_read >= 0 => f.last_record_index_read = f.pos - 1

\* A shape that was returned with the result offset r and kept is returned
\* again, as the same feature, by a look-up of the offset r in its tile.
RoundTrip ==
  \A record \in Records :
    /\ held.resultindex >= 0
    /\ record.resultindex = held.resultindex
    /\ record.tileindex = held.tileindex
    /\ GetShapeOf(record)
    => /\ ret'.status = MS_SUCCESS
       /\ ret'.shape.index = held.index
       /\ ret'.shape.tileindex = held.tileindex
       /\ ret'.shape.resultindex = held.resultindex
       /\ ret'.shape.type = held.type
       /\ ret'.shape.line = held.line

\* C29: result offsets round-trip: a shape returned with the result offset
\* r is returned again by msOGRFileGetShape for the offset r, whatever
\* fetches happened in between, and last_record_index_read is always >= -1
\* and, when >= 0, the zero-based cursor position of the feature fetched
\* last, rejected features counted.
C29_OffsetRoundTrip == []IndexIsCursor /\ [][RoundTrip]_vars

\* The second feature of a file, returned with the result offset 1 after
\* the first was rejected as incompatible and kept, was looked up again by
\* the offset 1.
C29_Witness ==
  /\ ~layer.tileindex
  /\ feats = <<"point", "line">>
  /\ held.resultindex = 1
  /\ held.index = 1
  /\ ret.op = "LayerGetShape" /\ ret.status = MS_SUCCESS
  /\ ret.shape.resultindex = 1
  /\ ret.shape.index = 1

msOGRLayerIsOpen(info) == IF info # << >> THEN MS_TRUE ELSE MS_FALSE

\* msOGRLayerOpen takes a step with the given outcome and returns status.
LayerOpenOf(outcome, status) ==
  \E r \in {msOGRLayerOpen(Running, outcome)} :
    /\ r.status = status
    /\ Leaves("LayerOpen", r, NoIter)

\* C30: msOGRLayerOpen is all-or-nothing: when it returns MS_FAILURE the
\* layer is not open (layerinfo is NULL, msOGRLayerIsOpen is false) and no
\* data set that the call opened is still open; on a layer that is open it
\* returns MS_SUCCESS and changes nothing.
C30_OpenAllOrNothing ==
  [][\A outcome \in {"ok", "okauto", "missing", "badlayer", "tilesrs",
                     "notileitem", "projfail"} :
       /\ layerinfo = << >> /\ LayerOpenOf(outcome, MS_FAILURE)
          => /\ layerinfo' = << >>
             /\ msOGRLayerIsOpen(layerinfo') = MS_FALSE
             /\ conns' = conns
       /\ layerinfo # << >> /\ LayerOpenOf(outcome, MS_FAILURE) => FALSE
       /\ layerinfo # << >> /\ LayerOpenOf(outcome, MS_SUCCESS)
          => UNCHANGED <<layer, layerinfo, conns, lockHeld>>]_vars

=============================================================================
